---- MODULE Spec2Model ----
(***************************************************************************)
(* Model of packages/modal-ocr: the OCR engine factory of                  *)
(* core/ocr_factory.py (registry, instance cache, fallback chain,          *)
(* comparison runner, engine selection) with the adapter life cycle of     *)
(* core/ocr_strategy.py and engines/base_engine.py, the document           *)
(* processor of core/document_processor.py and the request loop of         *)
(* engines/mistral_ocr_engine.py.                                          *)
(*                                                                         *)
(* Python objects are numbered in the order of their construction; object *)
(* identity is the number.  Objects that neither the cache nor the record  *)
(* of the last call refers to are dropped from the state.  What the        *)
(* environment decides (whether a module imports, whether a constructor,   *)
(* initialize(), process() or cleanup() raises) is drawn                   *)
(* with \E in the actions.  Exceptions are records; their message text is  *)
(* kept as structured fields (requested id, listed ids, chain entries).    *)
(***************************************************************************)
EXTENDS Integers, Sequences, FiniteSets, TLC

(***************************************************************************)
(* Bounds of the model.                                                    *)
(***************************************************************************)
MaxInst == 2        \* adapter objects constructed in one run
MaxCalls == 3       \* calls made on the factory in one run
MaxCompareCalls == 2    \* the same, in the runs with compare_engines
MaxCompare == 2     \* length of the id list handed to compare_engines
MaxDocs == 2        \* documents handed to a processor in one run
MaxDir == 3         \* entries of a directory handed to batch_process
MaxRequests == 2    \* requests an adapter sends to the remote API in one run
MaxSelect == 2      \* calls on the factory in a run that ends with a selection
MaxThreads == 2     \* threads that call create_engine at the same time
MaxAdapterCalls == 4 \* calls in one run of a factory and its adapters
MaxRegistryCalls == 2 \* calls in one run that watches the registry

(***************************************************************************)
(* Program constants.                                                      *)
(***************************************************************************)
DEFAULT_ENGINE == "paddleocr"
FALLBACK_CHAIN == <<"paddleocr", "tesseract", "easyocr">>

\* The try/import blocks of _ensure_engines_registered, in source order:
\* module to import, class it yields, registry names it is stored under.
BuiltinScan ==
    << [module |-> "engines.paddleocr_engine", cls |-> "PaddleOCREngine",
        names |-> <<"paddleocr">>],
       [module |-> "engines.surya_engine", cls |-> "SuryaEngine",
        names |-> <<"surya">>],
       [module |-> "engines.hunyuan_engine", cls |-> "HunyuanEngine",
        names |-> <<"hunyuan">>],
       [module |-> "engines.tesseract_engine", cls |-> "TesseractEngine",
        names |-> <<"tesseract">>],
       [module |-> "engines.easyocr_engine", cls |-> "EasyOCREngine",
        names |-> <<"easyocr">>],
       [module |-> "engines.gutenocr_engine", cls |-> "GutenOCREngine",
        names |-> <<"gutenocr", "gutenocr-3b", "gutenocr-7b">>],
       [module |-> "engines.mistral_ocr_engine", cls |-> "MistralOCREngine",
        names |-> <<"mistral_ocr", "mistral">>] >>

\* Default id list of compare_engines when engines is None.
CompareDefault == <<"gutenocr-3b", "mistral_ocr", "surya", "paddleocr">>

(***************************************************************************)
(* Inputs the actions draw from.                                           *)
(***************************************************************************)
\* Modules whose import may succeed in the modelled environments.
ProbedModules == {"engines.paddleocr_engine", "engines.tesseract_engine"}

\* "surya" is unknown to the registry until register_engine adds it
RequestIds == {"paddleocr", "surya"}

\* ids handed to compare_engines: "tesseract" is registered only when its
\* module imports
CompareIds == {"paddleocr", "tesseract"}

RegisterNames == {"surya"}
RegisterClasses == {"SuryaEngine"}

\* A config is a Python dict: a sequence of <<key, value>> items in
\* insertion order, keys distinct.
\* Values are written as their Python literals ("True", "False", "'cpu'").
Configs ==
    { <<>>,
      << <<"enabled", "False">> >> }

NoInst == 0

\* Optional arguments: None is the empty set, a given value x is {x}.
NoneArg == {}
Given(x) == {x}
ValueOf(arg) == CHOOSE x \in arg : TRUE

(***************************************************************************)
(* dict helpers                                                            *)
(***************************************************************************)
RECURSIVE ConfigGet(_, _, _)
\* config.get(k, default): value of the item with key k, else default
ConfigGet(cfg, k, default) ==
    IF cfg = <<>> THEN default
    ELSE IF Head(cfg)[1] = k THEN Head(cfg)[2]
    ELSE ConfigGet(Tail(cfg), k, default)

\* Python truth value of a literal
Truthy(v) == v \notin {"False", "None", "0", "''", "{}", "[]"}

RECURSIVE StrItems(_)
\* the items of str(dict): 'key': value, separated by ", "
StrItems(cfg) ==
    IF cfg = <<>> THEN <<>>
    ELSE <<"'", Head(cfg)[1], "'", ": ", Head(cfg)[2]>>
         \o (IF Tail(cfg) = <<>> THEN <<>> ELSE <<", ">>)
         \o StrItems(Tail(cfg))

\* str(config): "{'k': v, ...}" in insertion order, as a token sequence
PyStr(cfg) == <<"{">> \o StrItems(cfg) \o <<"}">>

\* f"{engine_name}:{hash(str(config))}".  hash() of equal strings is equal
\* within one process; the key carries the string hash() was applied to.
CacheKey(engine_name, cfg) == <<engine_name, ":", PyStr(cfg)>>

(***************************************************************************)
(* Exceptions                                                              *)
(***************************************************************************)
NoErr ==
    [type |-> "none", exc |-> "none", id |-> "", available |-> {},
     errors |-> <<>>]

\* ValueError(f"Moteur '{engine_name}' inconnu. Moteurs disponibles: {available}")
EngineNotFound(engine_name, available) ==
    [type |-> "inconnu", exc |-> "ValueError", id |-> engine_name,
     available |-> available, errors |-> <<>>]

\* ValueError(f"Moteur '{engine_name}' désactivé dans la configuration")
EngineDisabled(engine_name) ==
    [type |-> "désactivé", exc |-> "ValueError", id |-> engine_name,
     available |-> {}, errors |-> <<>>]

\* ValueError(f"Aucun moteur disponible. Erreurs: {'; '.join(errors)}")
NoEngineAvailable(errors) ==
    [type |-> "Aucun moteur disponible", exc |-> "ValueError", id |-> "",
     available |-> {}, errors |-> errors]

\* the exception a constructor of class c raised (engine_class(config))
CtorError(c) ==
    [type |-> "constructor", exc |-> "Exception", id |-> c,
     available |-> {}, errors |-> <<>>]

\* the exception initialize()/load_image()/_process_image() raised
ProcessError(c) ==
    [type |-> "process", exc |-> "Exception", id |-> c,
     available |-> {}, errors |-> <<>>]

\* the exception a cleanup() raised
CleanupError(c) ==
    [type |-> "cleanup", exc |-> "Exception", id |-> c,
     available |-> {}, errors |-> <<>>]

\* results[engine_name] = {"error": f"Engine '{engine_name}' not available", ...}
NotAvailable(engine_name) ==
    [type |-> "not available", exc |-> "none", id |-> engine_name,
     available |-> {}, errors |-> <<>>]

(***************************************************************************)
(* Registry (_engines): a function from registered names to classes.       *)
(***************************************************************************)
EmptyDict == [n \in {} |-> ""]

\* d[k] = v
DictSet(d, k, v) ==
    [n \in (DOMAIN d) \cup {k} |-> IF n = k THEN v ELSE d[n]]

RECURSIVE SetNames(_, _, _)
SetNames(eng, names, c) ==
    IF names = <<>> THEN eng
    ELSE SetNames(DictSet(eng, Head(names), c), Tail(names), c)

RECURSIVE ScanFrom(_, _, _)
\* one try/except ImportError block per entry of BuiltinScan
ScanFrom(eng, scan, imp) ==
    IF scan = <<>> THEN eng
    ELSE ScanFrom(IF Head(scan).module \in imp
                  THEN SetNames(eng, Head(scan).names, Head(scan).cls)
                  ELSE eng,
                  Tail(scan), imp)

\* A registration that runs the scan on every call.
EnsureRegisteredRescans(eng, imp) == ScanFrom(eng, BuiltinScan, imp)

\* _ensure_engines_registered: no-op when the registry has an entry
EnsureRegistered(eng, imp) ==
    IF DOMAIN eng # {} THEN eng ELSE ScanFrom(eng, BuiltinScan, imp)

(***************************************************************************)
(* Instance cache (_instances): a dict, kept as the sequence of its        *)
(* [key, inst] items in insertion order.                                   *)
(***************************************************************************)
CacheHas(cache, key) == \E i \in 1..Len(cache) : cache[i].key = key

CacheGet(cache, key) ==
    cache[CHOOSE i \in 1..Len(cache) : cache[i].key = key].inst

\* A factory that skips the store: the cache never learns the instance.
CachePutDropped(cache, key, inst) == cache

\* cls._instances[cache_key] = instance
CachePut(cache, key, inst) ==
    IF CacheHas(cache, key)
    THEN [i \in 1..Len(cache) |->
            IF cache[i].key = key THEN [key |-> key, inst |-> inst]
            ELSE cache[i]]
    ELSE Append(cache, [key |-> key, inst |-> inst])

CacheKeys(cache) == {cache[i].key : i \in 1..Len(cache)}
CacheInsts(cache) == {cache[i].inst : i \in 1..Len(cache)}

(***************************************************************************)
(* Adapter objects                                                         *)
(***************************************************************************)
\* OCRStrategy.__init__: config kept, no model loaded.  fb records that the
\* object was built by the fallback loop; cleanups counts cleanup() calls and
\* inits the initialize() calls that returned.
NewAdapter(c, cfg, viaFallback) ==
    [cls |-> c, config |-> cfg, model |-> FALSE, fb |-> viaFallback,
     cleanups |-> 0, inits |-> 0]

(***************************************************************************)
(* create_engine and _create_with_fallback as functions of the factory     *)
(* state.  st = [engines, instances, objects, nextId]; the result adds what the    *)
(* call returned (ret, an object index, or NoInst with the exception in    *)
(* err), the constructor calls it made (ctors) and whether the cache       *)
(* answered (hit).                                                         *)
(***************************************************************************)
Returned(st, inst, ctors, hit) ==
    [engines |-> st.engines, instances |-> st.instances,
     objects |-> st.objects, nextId |-> st.nextId, ret |-> inst, err |-> NoErr, ctors |-> ctors,
     hit |-> hit]

Raised(st, e, ctors) ==
    [engines |-> st.engines, instances |-> st.instances,
     objects |-> st.objects, nextId |-> st.nextId, ret |-> NoInst, err |-> e, ctors |-> ctors,
     hit |-> FALSE]

\* one call engine_class(config): the class, whether it returned, and whether
\* the fallback loop made it
CtorCall(c, ok, viaFallback) ==
    [cls |-> c, ok |-> ok, via |-> IF viaFallback THEN "fallback" ELSE "primary"]

\* A construction that stores its instance whatever cache_instance says.
ConstructAlwaysStores(st, c, cfg, cache_key, cache_instance, viaFallback, ctors) ==
    LET inst == st.nextId
        st2 == [engines |-> st.engines,
                instances |-> CachePut(st.instances, cache_key, inst),
                objects |-> DictSet(st.objects, inst,
                                    NewAdapter(c, cfg, viaFallback)),
                nextId |-> st.nextId + 1]
    IN Returned(st2, inst,
                Append(ctors, CtorCall(c, TRUE, viaFallback)), FALSE)

\* instance = engine_class(config); if cache_instance: _instances[key] = instance
Construct(st, c, cfg, cache_key, cache_instance, viaFallback, ctors) ==
    LET inst == st.nextId
        st2 == [engines |-> st.engines,
                instances |-> IF cache_instance
                              THEN CachePut(st.instances, cache_key, inst)
                              ELSE st.instances,
                objects |-> DictSet(st.objects, inst,
                                    NewAdapter(c, cfg, viaFallback)),
                nextId |-> st.nextId + 1]
    IN Returned(st2, inst,
                Append(ctors, CtorCall(c, TRUE, viaFallback)), FALSE)

RECURSIVE FallbackLoopLastError(_, _, _, _, _, _, _, _)
\* A fallback loop that keeps only the latest failure instead of appending
\* each one to errors.
FallbackLoopLastError(st, chain, cfg, cache_key, cache_instance, fbFail, errors, ctors) ==
    IF chain = <<>> THEN Raised(st, NoEngineAvailable(errors), ctors)
    ELSE LET fallback_engine == Head(chain) IN
         IF fallback_engine \notin DOMAIN st.engines
         THEN FallbackLoopLastError(st, Tail(chain), cfg, cache_key,
                                    cache_instance, fbFail, errors, ctors)
         ELSE LET engine_class == st.engines[fallback_engine] IN
              IF fallback_engine \notin fbFail
              THEN Construct(st, engine_class, cfg, cache_key, cache_instance,
                             TRUE, ctors)
              ELSE FallbackLoopLastError(st, Tail(chain), cfg, cache_key,
                                         cache_instance, fbFail,
                                         <<fallback_engine>>,
                                         Append(ctors,
                                                CtorCall(engine_class, FALSE,
                                                         TRUE)))

RECURSIVE FallbackLoop(_, _, _, _, _, _, _, _)
\* for fallback_engine in FALLBACK_CHAIN: ...   (chain is what is left of it)
\* fbFail: the chain members whose constructor raises in this call
FallbackLoop(st, chain, cfg, cache_key, cache_instance, fbFail, errors, ctors) ==
    IF chain = <<>> THEN Raised(st, NoEngineAvailable(errors), ctors)
    ELSE LET fallback_engine == Head(chain) IN
         IF fallback_engine \notin DOMAIN st.engines
         THEN FallbackLoop(st, Tail(chain), cfg, cache_key, cache_instance,
                           fbFail, errors, ctors)
         ELSE LET engine_class == st.engines[fallback_engine] IN
              IF fallback_engine \notin fbFail
              THEN Construct(st, engine_class, cfg, cache_key, cache_instance,
                             TRUE, ctors)
              ELSE FallbackLoop(st, Tail(chain), cfg, cache_key, cache_instance,
                                fbFail, Append(errors, fallback_engine),
                                Append(ctors,
                                       CtorCall(engine_class, FALSE, TRUE)))

\* A fallback that returns its instance without storing it.
CreateWithFallbackUncached(st, cfg, cache_key, cache_instance, fbFail, ctors) ==
    FallbackLoop(st, FALLBACK_CHAIN, cfg, cache_key, FALSE, fbFail, <<>>, ctors)

\* A fallback that walks the chain from its last member to its first.
CreateWithFallbackReversed(st, cfg, cache_key, cache_instance, fbFail, ctors) ==
    FallbackLoop(st, <<"easyocr", "tesseract", "paddleocr">>, cfg, cache_key,
                 cache_instance, fbFail, <<>>, ctors)

\* _create_with_fallback(config, cache_key, cache_instance)
CreateWithFallback(st, cfg, cache_key, cache_instance, fbFail, ctors) ==
    FallbackLoop(st, FALLBACK_CHAIN, cfg, cache_key, cache_instance, fbFail,
                 <<>>, ctors)

\* An except block that falls back whatever use_fallback says.
ConstructionFailedFallsBack(st, engine_class, cfg, cache_key, use_fallback, cache_instance, fbFail) ==
    CreateWithFallback(st, cfg, cache_key, cache_instance,
                       fbFail,
                       <<CtorCall(engine_class, FALSE, FALSE)>>)

\* except Exception as e: if use_fallback: return _create_with_fallback(...)
\*                        raise
ConstructionFailed(st, engine_class, cfg, cache_key, use_fallback, cache_instance, fbFail) ==
    LET failed == <<CtorCall(engine_class, FALSE, FALSE)>> IN
    IF use_fallback
    THEN CreateWithFallback(st, cfg, cache_key, cache_instance, fbFail, failed)
    ELSE Raised(st, CtorError(engine_class), failed)

\* create_engine(engine_name, config, use_fallback, cache_instance)
\* pOk: the requested engine's constructor returns
CreateEngine(st0, imp, engine_name, cfg, use_fallback, cache_instance, pOk, fbFail) ==
    LET st == [st0 EXCEPT !.engines = EnsureRegistered(st0.engines, imp)]
        cache_key == CacheKey(engine_name, cfg)
    IN IF cache_instance /\ CacheHas(st.instances, cache_key)
       THEN Returned(st, CacheGet(st.instances, cache_key), <<>>, TRUE)
       ELSE IF engine_name \notin DOMAIN st.engines
       THEN IF use_fallback
            THEN CreateWithFallback(st, cfg, cache_key, cache_instance,
                                    fbFail, <<>>)
            ELSE Raised(st, EngineNotFound(engine_name, DOMAIN st.engines),
                        <<>>)
       ELSE IF ~Truthy(ConfigGet(cfg, "enabled", "True"))
       THEN IF use_fallback
            THEN CreateWithFallback(st, cfg, cache_key, cache_instance,
                                    fbFail, <<>>)
            ELSE Raised(st, EngineDisabled(engine_name), <<>>)
       ELSE LET engine_class == st.engines[engine_name] IN
            IF pOk
            THEN Construct(st, engine_class, cfg, cache_key, cache_instance,
                           FALSE, <<>>)
            ELSE ConstructionFailed(st, engine_class, cfg, cache_key,
                                    use_fallback, cache_instance, fbFail)

(***************************************************************************)
(* Adapter operations                                                      *)
(***************************************************************************)
\* BaseEngine.process: _ensure_initialized() (initialize() only while no
\* model is loaded), then load_image and _process_image.
\* at: where the call raises ("init", "process") or "ok".
Process(objs, inst, at) ==
    LET o == objs[inst]
        needsInit == ~o.model
    IN IF needsInit /\ at = "init"
       THEN [objects |-> objs, ok |-> FALSE, err |-> ProcessError(o.cls)]
       ELSE LET objs2 == IF needsInit
                         THEN [objs EXCEPT ![inst].model = TRUE,
                                           ![inst].inits = @ + 1]
                         ELSE objs
            IN
            IF at = "process"
            THEN [objects |-> objs2, ok |-> FALSE, err |-> ProcessError(o.cls)]
            ELSE [objects |-> objs2, ok |-> TRUE, err |-> NoErr]

\* A cleanup() that also drops the loaded model.
CleanupUnloads(objs, inst) ==
    [objs EXCEPT ![inst].cleanups = @ + 1, ![inst].model = FALSE]

\* OCRStrategy.cleanup(): releases device caches; the loaded model stays
Cleanup(objs, inst) ==
    [objs EXCEPT ![inst].cleanups = @ + 1]

RECURSIVE ClearLoopPropagates(_, _, _)
\* A loop without the try/except: the first cleanup() that raises ends it.
ClearLoopPropagates(items, objs, raising) ==
    IF items = <<>> THEN [objects |-> objs, err |-> NoErr, done |-> TRUE]
    ELSE LET cleaned == Cleanup(objs, Head(items).inst) IN
         IF Head(items).inst \in raising
         THEN [objects |-> cleaned,
               err |-> CleanupError(cleaned[Head(items).inst].cls),
               done |-> FALSE]
         ELSE ClearLoopPropagates(Tail(items), cleaned, raising)

RECURSIVE ClearLoop(_, _, _)
\* for instance in cls._instances.values(): try: instance.cleanup()
\*                                           except Exception: pass
\* raising: the instances whose cleanup() raises
ClearLoop(items, objs, raising) ==
    IF items = <<>> THEN [objects |-> objs, err |-> NoErr, done |-> TRUE]
    ELSE LET cleaned == Cleanup(objs, Head(items).inst) IN
         IF Head(items).inst \in raising
         THEN ClearLoop(Tail(items), cleaned, raising)    \* except: pass
         ELSE ClearLoop(Tail(items), cleaned, raising)

\* clear_cache()
ClearCache(st, raising) ==
    LET r == ClearLoop(st.instances, st.objects, raising)
    IN [engines |-> st.engines,
        instances |-> IF r.done THEN <<>> ELSE st.instances,
        objects |-> r.objects, nextId |-> st.nextId, err |-> r.err]

(***************************************************************************)
(* compare_engines                                                         *)
(***************************************************************************)
NoResults == [n \in {} |-> [success |-> FALSE, err |-> NoErr, inst |-> NoInst]]


Entry(success, err, inst) == [success |-> success, err |-> err, inst |-> inst]

\* A loop body that leaves use_fallback at its default: a failed constructor
\* is answered by the first chain member.
CompareOneWithFallback(st, imp, engine_name, cfg, at) ==
    IF engine_name \notin DOMAIN st.engines
    THEN [st |-> st, entry |-> Entry(FALSE, NotAvailable(engine_name), NoInst),
          ctors |-> <<>>]
    ELSE LET r == CreateEngine(st, imp, engine_name, cfg, TRUE, TRUE,
                               at # "ctor", {})
             st2 == [engines |-> r.engines, instances |-> r.instances,
                     objects |-> r.objects, nextId |-> r.nextId]
         IN IF r.ret = NoInst
            THEN [st |-> st2, entry |-> Entry(FALSE, r.err, NoInst),
                  ctors |-> r.ctors]
            ELSE LET p == Process(st2.objects, r.ret, at)
                 IN [st |-> [st2 EXCEPT !.objects = p.objects],
                     entry |-> Entry(p.ok, p.err, r.ret),
                     ctors |-> r.ctors]

\* the body of the loop for one engine_name: the factory state after it,
\* the entry stored in results and the constructor calls made
\* at: where the iteration raises: "ctor", "init", "process" or "ok"
CompareOne(st, imp, engine_name, cfg, at) ==
    IF engine_name \notin DOMAIN st.engines
    THEN [st |-> st, entry |-> Entry(FALSE, NotAvailable(engine_name), NoInst),
          ctors |-> <<>>]
    ELSE LET r == CreateEngine(st, imp, engine_name, cfg, FALSE, TRUE,
                               at # "ctor", {})
             st2 == [engines |-> r.engines, instances |-> r.instances,
                     objects |-> r.objects, nextId |-> r.nextId]
         IN IF r.ret = NoInst
            THEN [st |-> st2, entry |-> Entry(FALSE, r.err, NoInst),
                  ctors |-> r.ctors]
            ELSE LET p == Process(st2.objects, r.ret, at)
                 IN [st |-> [st2 EXCEPT !.objects = p.objects],
                     entry |-> Entry(p.ok, p.err, r.ret),
                     ctors |-> r.ctors]

\* where an iteration can raise: nowhere when the id is not registered
\* (no call is made); in the constructor only when create_engine reaches it;
\* in initialize() only while the object has no model
RaisesAt(st, engine_name, cfg) ==
    LET cache_key == CacheKey(engine_name, cfg) IN
    IF engine_name \notin DOMAIN st.engines THEN {"ok"}
    ELSE IF CacheHas(st.instances, cache_key)
    THEN IF st.objects[CacheGet(st.instances, cache_key)].model
         THEN {"ok", "process"}
         ELSE {"ok", "init", "process"}
    ELSE IF ~Truthy(ConfigGet(cfg, "enabled", "True")) THEN {"ok"}
    ELSE {"ok", "ctor", "init", "process"}

RECURSIVE CompareLoopAborts(_, _, _, _, _, _)
\* A loop that gives up at the first engine that fails.
CompareLoopAborts(st, imp, ids, i, cfg, acc) ==
    IF i > Len(ids)
    THEN {[st |-> st, results |-> acc.results, ctors |-> acc.ctors]}
    ELSE UNION {
           LET one == CompareOne(st, imp, ids[i], cfg, at)
               acc2 == [results |-> DictSet(acc.results, ids[i], one.entry),
                        ctors |-> acc.ctors \o one.ctors]
           IN IF one.entry.success
              THEN CompareLoopAborts(one.st, imp, ids, i + 1, cfg, acc2)
              ELSE {[st |-> one.st, results |-> acc2.results,
                     ctors |-> acc2.ctors]}
           : at \in RaisesAt(st, ids[i], cfg)}

RECURSIVE CompareLoop(_, _, _, _, _, _)
\* for engine_name in engines: ...   (from the i-th on)
\* The outcomes of the loop: the environment decides, in each iteration,
\* where it raises.
CompareLoop(st, imp, ids, i, cfg, acc) ==
    IF i > Len(ids)
    THEN {[st |-> st, results |-> acc.results, ctors |-> acc.ctors]}
    ELSE UNION {
           LET one == CompareOne(st, imp, ids[i], cfg, at)
           IN CompareLoop(one.st, imp, ids, i + 1, cfg,
                          [results |-> DictSet(acc.results, ids[i], one.entry),
                           ctors |-> acc.ctors \o one.ctors])
           : at \in RaisesAt(st, ids[i], cfg)}

\* engines = [e for e in <default list> if e in cls._engines] when None
ComparedIds(eng, enginesArg) ==
    IF enginesArg = NoneArg
    THEN SelectSeq(CompareDefault, LAMBDA e : e \in DOMAIN eng)
    ELSE ValueOf(enginesArg)

\* compare_engines(image_path, engines, config); engines and config may be
\* NoneArg.  The set of its outcomes.
CompareEngines(st0, imp, enginesArg, configArg) ==
    LET st == [st0 EXCEPT !.engines = EnsureRegistered(st0.engines, imp)]
        ids == ComparedIds(st.engines, enginesArg)
        \* config = config or {}
        cfg == IF configArg = NoneArg THEN <<>> ELSE ValueOf(configArg)
    IN {[engines |-> r.st.engines, instances |-> r.st.instances,
         objects |-> r.st.objects, nextId |-> r.st.nextId,
         engines_compared |-> ids, results |-> r.results, ctors |-> r.ctors,
         config |-> cfg]
        : r \in CompareLoop(st, imp, ids, 1, cfg,
                            [results |-> NoResults, ctors |-> <<>>])}

(***************************************************************************)
(* State                                                                   *)
(***************************************************************************)
VARIABLES
    importable,   \* environment: the engine modules whose import succeeds
    engines,      \* OCREngineFactory._engines
    instances,    \* OCREngineFactory._instances
    objects,      \* the adapter objects still referred to, by number
    nextId,       \* the number the next constructed object gets
    last,         \* the last call made on the factory and its outcome
    calls,        \* the number of calls made so far
    processor,    \* a DocumentProcessor: its engine configs and _engine_cache
    outcome,      \* the last call made on the processor and what it returned
    request,      \* a MistralOCREngine._make_request call in progress
    selection,    \* the last auto_select_engine call and what it returned
    threads       \* the create_engine call of each thread and where it stands

vars ==
    <<importable, engines, instances, objects, nextId, last, calls,
      processor, outcome, request, selection, threads>>

Factory ==
    [engines |-> engines, instances |-> instances, objects |-> objects,
     nextId |-> nextId]

\* record of a call; fields a call does not use keep these values
NoCall ==
    [op |-> "none", id |-> "", cfg |-> <<>>, uf |-> FALSE, ci |-> FALSE,
     ret |-> NoInst, err |-> NoErr, ctors |-> <<>>, hit |-> FALSE,
     afterClear |-> FALSE, ids |-> <<>>, results |-> NoResults,
     cleared |-> <<>>]

ChainSet == {FALLBACK_CHAIN[i] : i \in 1..Len(FALLBACK_CHAIN)}

SeqsUpTo(S, n) == UNION {[1..k -> S] : k \in 0..n}

\* the objects a state refers to: cached ones and those the last call names
Live(cache, call) ==
    CacheInsts(cache) \cup CacheInsts(call.cleared)
    \cup ({call.ret} \ {NoInst})
    \cup ({call.results[n].inst : n \in DOMAIN call.results} \ {NoInst})

Keep(objs, ids) == [i \in (DOMAIN objs) \cap ids |-> objs[i]]

\* the state after a call with outcome r, recorded as call
Becomes(r, call) ==
    /\ calls < MaxCalls
    /\ r.nextId <= MaxInst + 1
    /\ calls' = calls + 1
    /\ engines' = r.engines
    /\ instances' = r.instances
    /\ objects' = Keep(r.objects, Live(r.instances, call))
    /\ nextId' = r.nextId
    /\ last' = call
    /\ UNCHANGED <<importable, processor, outcome, request, selection, threads>>

\* what a processor call did besides returning: the _get_engine calls
\* (lookups), the constructor calls and the adapter methods invoked
NoTrace == [lookups |-> <<>>, ctors |-> <<>>, invoked |-> <<>>, faults |-> <<>>]

\* no processor built
NoProcessor ==
    [config |-> [n \in {} |-> <<>>], engine_cache |-> [n \in {} |-> NoInst]]

\* record of a processor call; fields a call does not use keep these values
NoProcessorCall ==
    [op |-> "none", path |-> "", entries |-> <<>>, exists |-> FALSE,
     recursive |-> FALSE, engineArg |-> NoneArg, files |-> <<>>,
     results |-> <<>>, raised |-> NoErr, trace |-> NoTrace]

\* no request in progress
NoRequest ==
    [pc |-> "idle", retry_attempts |-> 0, attempt |-> 0, backoff |-> 0,
     responses |-> <<>>, slept |-> <<>>, last_error |-> "None",
     ret |-> <<>>, err |-> NoErr]

\* record of an auto_select_engine call
NoSelection ==
    [op |-> "none", seq |-> 0, priority |-> "", document_type |-> "",
     complexity |-> "", has_gpu |-> NoneArg, ret |-> "", rets |-> {}]

\* a thread that has not called create_engine
NoThread ==
    [pc |-> "idle", engine_name |-> "", cfg |-> <<>>, inst |-> NoInst,
     ret |-> NoInst, err |-> NoErr]

\* no thread has called create_engine
NoThreads == [t \in 1..MaxThreads |-> NoThread]

\* the factory before its first use
InitFactory ==
    /\ threads = NoThreads
    /\ importable \in SUBSET ProbedModules
    /\ engines = EmptyDict
    /\ instances = <<>>
    /\ objects = [i \in {} |-> NewAdapter("", <<>>, FALSE)]
    /\ nextId = 1
    /\ last = NoCall
    /\ calls = 0

Init ==
    /\ InitFactory
    /\ processor = NoProcessor
    /\ outcome = NoProcessorCall
    /\ request = NoRequest
    /\ selection = NoSelection

\* OCREngineFactory.register_engine(name, engine_class)
RegisterEngine ==
    \E name \in RegisterNames, c \in RegisterClasses :
        Becomes([Factory EXCEPT !.engines = DictSet(engines, name, c)],
                [NoCall EXCEPT !.op = "register", !.id = name])

\* OCREngineFactory.get_available_engines()
GetAvailableEngines ==
    Becomes([Factory EXCEPT !.engines = EnsureRegistered(engines, importable)],
            [NoCall EXCEPT !.op = "available"])

\* OCREngineFactory.create_engine(engine_name, config, use_fallback,
\*                                cache_instance)
\* cfgs: the configs the callers pass
\* cis: the values of cache_instance the callers pass
\* The environment decides the outcome of the constructors the call reaches:
\* the requested engine's (pOk) and the registered chain members' (fbFail).
CreateEngineOver(cfgs, cis) ==
    \E engine_name \in RequestIds, cfg \in cfgs,
       use_fallback \in BOOLEAN, cache_instance \in cis :
      LET eng == EnsureRegistered(engines, importable)
          answered == cache_instance
                      /\ CacheHas(instances, CacheKey(engine_name, cfg))
          primary == ~answered /\ engine_name \in DOMAIN eng
                     /\ Truthy(ConfigGet(cfg, "enabled", "True"))
      IN
      \E pOk \in (IF primary THEN BOOLEAN ELSE {TRUE}),
         fbFail \in (IF use_fallback /\ ~answered
                     THEN SUBSET (ChainSet \cap DOMAIN eng) ELSE {{}}) :
        LET r == CreateEngine(Factory, importable, engine_name, cfg,
                              use_fallback, cache_instance, pOk, fbFail)
        IN Becomes(r, [NoCall EXCEPT !.op = "create", !.id = engine_name,
                          !.cfg = cfg, !.uf = use_fallback,
                          !.ci = cache_instance, !.ret = r.ret,
                          !.err = r.err, !.ctors = r.ctors, !.hit = r.hit,
                          !.afterClear =
                              /\ last.op = "clear"
                              /\ CacheHas(last.cleared,
                                          CacheKey(engine_name, cfg))])

\* create_engine with the configs of the factory runs
CreateEngineWith(cis) == CreateEngineOver(Configs, cis)

CreateEngineCall == CreateEngineWith(BOOLEAN)

\* create_engine by callers that leave cache_instance at its default
CreateCachedCall ==
    /\ calls < MaxCompareCalls
    /\ CreateEngineWith({TRUE})

\* OCREngineFactory.clear_cache()
ClearCacheCall ==
    \E raising \in SUBSET CacheInsts(instances) :
        LET r == ClearCache(Factory, raising)
        IN Becomes(r, [NoCall EXCEPT !.op = "clear", !.err = r.err,
                          !.cleared = instances])

\* OCREngineFactory.compare_engines(image_path, engines, config)
CompareEnginesCall ==
    /\ calls < MaxCompareCalls
    /\ \E enginesArg \in {NoneArg}
           \cup {Given(l) : l \in SeqsUpTo(CompareIds, MaxCompare)},
          \* config None and config {} both become {} (config = config or {})
          configArg \in {NoneArg} \cup {Given(c) : c \in Configs \ {<<>>}} :
         \E r \in CompareEngines(Factory, importable, enginesArg, configArg) :
            Becomes(r, [NoCall EXCEPT !.op = "compare",
                           !.cfg = r.config,
                           !.ids = r.engines_compared,
                           !.results = r.results, !.ctors = r.ctors])

\* The factory without the comparison runner.
Next ==
    \/ RegisterEngine
    \/ GetAvailableEngines
    \/ CreateEngineCall
    \/ ClearCacheCall

Spec == Init /\ [][Next]_vars

\* the state after a call of a method of adapter inst that left the
\* objects as objs, recorded as call
AdapterBecomes(objs, call) ==
    /\ calls < MaxAdapterCalls
    /\ calls' = calls + 1
    /\ objects' = Keep(objs, Live(instances, call))
    /\ last' = call
    /\ UNCHANGED <<importable, engines, instances, nextId, processor, outcome,
                   request, selection, threads>>

\* engine.process(file_path) or engine.process_bytes(image_bytes) on an
\* adapter the caller holds
\* at: where the call raises ("init" only while no model is loaded,
\* "process") or "ok"
AdapterProcessCall ==
    /\ calls < MaxAdapterCalls
    /\ \E inst \in DOMAIN objects, op \in {"process", "process_bytes"},
          at \in {"ok", "init", "process"} :
         /\ at = "init" => ~objects[inst].model
         /\ LET p == Process(objects, inst, at)
            IN AdapterBecomes(p.objects,
                              [NoCall EXCEPT !.op = op, !.ret = inst,
                                             !.err = p.err])

\* engine.cleanup() on an adapter the caller holds
AdapterCleanupCall ==
    /\ calls < MaxAdapterCalls
    /\ \E inst \in DOMAIN objects :
         AdapterBecomes(Cleanup(objects, inst),
                        [NoCall EXCEPT !.op = "cleanup", !.ret = inst])

\* Adapters made by the factory and used by their callers.
NextAdapter ==
    \/ CreateEngineCall
    \/ AdapterProcessCall
    \/ AdapterCleanupCall

SpecAdapter == Init /\ [][NextAdapter]_vars

\* Configs with two keys: the same mapping written in both insertion
\* orders, and mappings that differ from it in a value or in a key.
KeyConfigs ==
    { << <<"lang", "'fr'">>, <<"use_gpu", "False">> >>,
      << <<"use_gpu", "False">>, <<"lang", "'fr'">> >>,
      << <<"lang", "'en'">>, <<"use_gpu", "False">> >>,
      << <<"lang", "'fr'">> >> }

\* create_engine(engine_name, config) with cache_instance=True and a config
\* of KeyConfigs
CreateKeyedCall == CreateEngineOver(KeyConfigs, {TRUE})

\* The factory called with configs of more than one key.
NextKeys ==
    \/ CreateKeyedCall
    \/ ClearCacheCall

SpecKeys == Init /\ [][NextKeys]_vars

\* The factory with the comparison runner.
NextCompare ==
    \/ CreateCachedCall
    \/ CompareEnginesCall

SpecCompare == Init /\ [][NextCompare]_vars

(***************************************************************************)
(* Document processor (core/document_processor.py)                         *)
(*                                                                         *)
(* A file is [path, suffix, exists, depth]: suffix is Path.suffix, exists  *)
(* what the file system answers, depth 0 for an entry of the directory     *)
(* itself and 1 for an entry of a sub-directory.  A processor is           *)
(* [config, engine_cache]: config is config["ocr"]["engines"], a dict from *)
(* engine names to engine configs.                                         *)
(***************************************************************************)
SUPPORTED_EXTENSIONS ==
    {".pdf", ".png", ".jpg", ".jpeg", ".tiff", ".tif", ".bmp", ".webp"}

\* str.lower() on the suffixes of the modelled files
Lower(suffix) ==
    CASE suffix = ".PDF" -> ".pdf"
      [] suffix = ".PNG" -> ".png"
      [] suffix = ".Xyz" -> ".xyz"
      [] OTHER -> suffix

File(path, suffix, exists, depth) ==
    [path |-> path, suffix |-> suffix, exists |-> exists, depth |-> depth]

\* the files handed to process_document
Files ==
    { File("page.PNG", ".PNG", TRUE, 0),
      File("notes.Xyz", ".Xyz", TRUE, 0),
      File("missing.pdf", ".pdf", FALSE, 0),
      File("missing.xyz", ".xyz", FALSE, 0) }

\* the engine sections of the configs a processor is built with
ProcessorConfigs ==
    { [n \in {} |-> <<>>],
      [n \in {"paddleocr"} |-> <<>>],
      [n \in {"paddleocr"} |-> << <<"enabled", "False">> >>] }

\* config["ocr"]["default_engine"]
ProcessorDefault == "paddleocr"

\* the engine_name arguments: None and an id no module registers
EngineArgs == {NoneArg, Given("surya")}

RECURSIVE ConfigSet(_, _, _)
\* d[k] = v on a Python dict: the key keeps its place, a new key goes last
ConfigSet(cfg, k, v) ==
    IF cfg = <<>> THEN << <<k, v>> >>
    ELSE IF Head(cfg)[1] = k THEN << <<k, v>> >> \o Tail(cfg)
    ELSE <<Head(cfg)>> \o ConfigSet(Tail(cfg), k, v)

\* OCRStrategy.name: self.__class__.__name__.replace("Engine", "").lower()
EngineName(c) ==
    CASE c = "PaddleOCREngine" -> "paddleocr"
      [] c = "TesseractEngine" -> "tesseract"
      [] c = "EasyOCREngine" -> "easyocr"
      [] c = "SuryaEngine" -> "surya"
      [] OTHER -> c

\* f"File not found: {file_path}"
FileNotFound(path) ==
    [type |-> "File not found", exc |-> "none", id |-> path,
     available |-> {}, errors |-> <<>>]

\* f"Unsupported file format: {file_path.suffix}"
UnsupportedFormat(suffix) ==
    [type |-> "Unsupported file format", exc |-> "none", id |-> suffix,
     available |-> {}, errors |-> <<>>]

\* f"Failed to create engine: {engine_name}"
FailedToCreate(engine_name) ==
    [type |-> "Failed to create engine", exc |-> "none", id |-> engine_name,
     available |-> {}, errors |-> <<>>]

\* the exception open()/write() raised in _save_results
SaveError(path) ==
    [type |-> "save", exc |-> "Exception", id |-> path,
     available |-> {}, errors |-> <<>>]

\* f"Directory not found: {input_dir}"
DirectoryNotFound ==
    [type |-> "Directory not found", exc |-> "none", id |-> "",
     available |-> {}, errors |-> <<>>]

\* "No supported files found"
NoSupportedFiles ==
    [type |-> "No supported files found", exc |-> "none", id |-> "",
     available |-> {}, errors |-> <<>>]

\* The dict a processor call returns.  Keys the dict lacks hold "": engine
\* is the "engine" key, input_file the "input_file" key, produced_by
\* metadata["engine"] of the adapter's result; saved tells that "outputs"
\* is there.  inst is the adapter the call used (not part of the dict).
Outcome(success, error, engine, input_file, produced_by, saved, inst) ==
    [success |-> success, error |-> error, engine |-> engine,
     input_file |-> input_file, produced_by |-> produced_by,
     saved |-> saved, inst |-> inst]

StateOf(r) ==
    [engines |-> r.engines, instances |-> r.instances, objects |-> r.objects,
     nextId |-> r.nextId]

\* A handler that lets everything but ValueError through.
ExceptValueError(e) == e.exc = "ValueError"

\* "except Exception": whether the handler catches e.  Everything the
\* factory, an adapter or open() raises derives from Exception.
ExceptException(e) == e.exc \in {"ValueError", "Exception"}

\* the outcome of a processor call that returned no dict
NoOutcome ==
    [success |-> FALSE, error |-> NoErr, engine |-> "", input_file |-> "",
     produced_by |-> "", saved |-> FALSE, inst |-> NoInst]

\* The ways the constructors of the fallback chain can raise in one call:
\* the loop stops at the first that returns, so the registered members that
\* raise are the first k of them, for each k.
FailingPrefixes(eng) ==
    LET chain == SelectSeq(FALLBACK_CHAIN, LAMBDA e : e \in DOMAIN eng)
    IN {{chain[i] : i \in 1..k} : k \in 0..Len(chain)}

\* A _get_engine that asks the factory on every call.
GetEngineAsksFactory(st, proc, imp, engine_name) ==
    LET known == engine_name \in DOMAIN proc.config
        given == IF known THEN proc.config[engine_name] ELSE <<>>
        \* engine_config["enabled"] = engine_config.get("enabled", True)
        engine_config == ConfigSet(given, "enabled",
                                   ConfigGet(given, "enabled", "True"))
        proc2 == IF known
                 THEN [proc EXCEPT !.config[engine_name] = engine_config]
                 ELSE proc
        eng == EnsureRegistered(st.engines, imp)
        answered == CacheHas(st.instances,
                             CacheKey(engine_name, engine_config))
        primary == /\ ~answered
                   /\ engine_name \in DOMAIN eng
                   /\ Truthy(ConfigGet(engine_config, "enabled", "True"))
    IN UNION {
         { LET r == CreateEngine(st, imp, engine_name, engine_config,
                                 TRUE, TRUE, pOk, fbFail)
           IN IF r.ret = NoInst
              \* except Exception: return None
              THEN [st |-> StateOf(r), proc |-> proc2,
                    engine |-> NoInst, ctors |-> r.ctors,
                    raised |-> IF ExceptException(r.err) THEN NoErr
                               ELSE r.err]
              ELSE [st |-> StateOf(r),
                    proc |-> [proc2 EXCEPT !.engine_cache =
                                 DictSet(@, engine_name, r.ret)],
                    engine |-> r.ret, ctors |-> r.ctors,
                    raised |-> NoErr]
           : fbFail \in (IF ~answered /\ ~(primary /\ pOk)
                         THEN FailingPrefixes(eng)
                         ELSE {{}}) }
         : pOk \in (IF primary THEN BOOLEAN ELSE {TRUE}) }

\* DocumentProcessor._get_engine(engine_name): the set of its outcomes.
\* The environment decides which of the constructors create_engine reaches
\* raise.
GetEngine(st, proc, imp, engine_name) ==
    IF engine_name \in DOMAIN proc.engine_cache
    THEN {[st |-> st, proc |-> proc,
           engine |-> proc.engine_cache[engine_name], ctors |-> <<>>,
           raised |-> NoErr]}
    ELSE LET known == engine_name \in DOMAIN proc.config
             given == IF known THEN proc.config[engine_name] ELSE <<>>
             \* engine_config["enabled"] = engine_config.get("enabled", True)
             engine_config == ConfigSet(given, "enabled",
                                        ConfigGet(given, "enabled", "True"))
             proc2 == IF known
                      THEN [proc EXCEPT !.config[engine_name] = engine_config]
                      ELSE proc
             eng == EnsureRegistered(st.engines, imp)
             answered == CacheHas(st.instances,
                                  CacheKey(engine_name, engine_config))
             primary == /\ ~answered
                        /\ engine_name \in DOMAIN eng
                        /\ Truthy(ConfigGet(engine_config, "enabled", "True"))
         IN UNION {
              { LET r == CreateEngine(st, imp, engine_name, engine_config,
                                      TRUE, TRUE, pOk, fbFail)
                IN IF r.ret = NoInst
                   \* except Exception: return None
                   THEN [st |-> StateOf(r), proc |-> proc2,
                         engine |-> NoInst, ctors |-> r.ctors,
                         raised |-> IF ExceptException(r.err) THEN NoErr
                                    ELSE r.err]
                   ELSE [st |-> StateOf(r),
                         proc |-> [proc2 EXCEPT !.engine_cache =
                                      DictSet(@, engine_name, r.ret)],
                         engine |-> r.ret, ctors |-> r.ctors,
                         raised |-> NoErr]
                : fbFail \in (IF ~answered /\ ~(primary /\ pOk)
                              THEN FailingPrefixes(eng)
                              ELSE {{}}) }
              : pOk \in (IF primary THEN BOOLEAN ELSE {TRUE}) }

\* where engine.process / engine.process_bytes can raise: in initialize()
\* only while the object has no model
AdapterRaisesAt(o) ==
    IF o.model THEN {"ok", "process"} ELSE {"ok", "init", "process"}

Invoked(inst, method) == [inst |-> inst, method |-> method]

\* what a try block whose body raised e hands back: the dict built by
\* "except Exception as e", or e itself on its way to the caller
Handled(st, proc, tr, e, engine_name, path, inst) ==
    [st |-> st, proc |-> proc, trace |-> tr,
     outcome |-> IF ExceptException(e)
                 THEN Outcome(FALSE, e, engine_name, path, "", FALSE, inst)
                 ELSE NoOutcome,
     raised |-> IF ExceptException(e) THEN NoErr ELSE e]

\* the lines after "engine = self._get_engine(engine_name)" up to the try
\* block, for the outcome g of _get_engine
AfterGetEngine(g, engine_name, path) ==
    LET looked == [NoTrace EXCEPT
                      !.lookups = <<engine_name>>, !.ctors = g.ctors,
                      !.faults = IF g.engine = NoInst THEN <<"create">>
                                 ELSE <<>>]
    IN IF g.raised # NoErr
       THEN [st |-> g.st, proc |-> g.proc, trace |-> looked,
             outcome |-> NoOutcome, raised |-> g.raised]
       ELSE [st |-> g.st, proc |-> g.proc, trace |-> looked,
             outcome |-> Outcome(FALSE, FailedToCreate(engine_name), "",
                                 path, "", FALSE, NoInst),
             raised |-> NoErr]

\* A try block that answers a failure of the adapter by constructing the
\* next engine and handing it the document.
TryProcessFallsBack(g, file, engine_name, at, fault) ==
    LET looked == AfterGetEngine(g, engine_name, file.path).trace
        p == Process(g.st.objects, g.engine, at)
        other == Construct([g.st EXCEPT !.objects = p.objects],
                           "TesseractEngine", <<>>, "", FALSE, TRUE, g.ctors)
        q == Process(other.objects, other.ret, "ok")
    IN IF p.ok
       THEN [st |-> [g.st EXCEPT !.objects = Cleanup(p.objects, g.engine)],
             proc |-> g.proc,
             trace |-> [looked EXCEPT
                           !.invoked = <<Invoked(g.engine, "process"),
                                         Invoked(g.engine, "cleanup")>>],
             outcome |-> Outcome(TRUE, NoErr, engine_name, file.path,
                                 EngineName(g.st.objects[g.engine].cls),
                                 TRUE, g.engine),
             raised |-> NoErr]
       ELSE [st |-> [StateOf(other) EXCEPT !.objects = q.objects],
             proc |-> g.proc,
             trace |-> [looked EXCEPT
                           !.ctors = other.ctors,
                           !.faults = <<"process">>,
                           !.invoked = <<Invoked(g.engine, "process"),
                                         Invoked(other.ret, "process")>>],
             outcome |-> Outcome(TRUE, NoErr, engine_name, file.path,
                                 "tesseract", TRUE, other.ret),
             raised |-> NoErr]

\* the try block of process_document, lines 87-114, for the adapter g.engine.
\* at: where engine.process raises, if it does; fault: "save" when
\* _save_results raises, "cleanup" when engine.cleanup() does, else "none"
TryProcess(g, file, engine_name, at, fault) ==
    LET looked == AfterGetEngine(g, engine_name, file.path).trace
        p == Process(g.st.objects, g.engine, at)
        c == g.st.objects[g.engine].cls
        processed == [looked EXCEPT
                         !.invoked = <<Invoked(g.engine, "process")>>]
        cleaned == [processed EXCEPT
                       !.invoked = @ \o <<Invoked(g.engine, "cleanup")>>]
        With(objs) == [g.st EXCEPT !.objects = objs]
    IN IF ~p.ok
       THEN Handled(With(p.objects), g.proc,
                    [processed EXCEPT !.faults = <<"process">>], p.err,
                    engine_name, file.path, g.engine)
       ELSE IF fault = "save"
       THEN Handled(With(p.objects), g.proc,
                    [processed EXCEPT !.faults = <<"save">>],
                    SaveError(file.path), engine_name, file.path, g.engine)
       ELSE IF fault = "cleanup"
       THEN Handled(With(Cleanup(p.objects, g.engine)), g.proc,
                    [cleaned EXCEPT !.faults = <<"cleanup">>],
                    CleanupError(c), engine_name, file.path, g.engine)
       ELSE [st |-> With(Cleanup(p.objects, g.engine)), proc |-> g.proc,
             trace |-> cleaned,
             outcome |-> Outcome(TRUE, NoErr, engine_name, file.path,
                                 EngineName(c), TRUE, g.engine),
             raised |-> NoErr]

\* process_document from "engine = self._get_engine(engine_name)" on, for
\* the outcome g of _get_engine: the set of its outcomes.  The environment
\* decides whether the adapter, _save_results or cleanup() raises.
ProcessWithEngine(g, file, engine_name) ==
    IF g.raised # NoErr \/ g.engine = NoInst
    THEN {AfterGetEngine(g, engine_name, file.path)}
    ELSE {TryProcess(g, file, engine_name, at, fault)
          : at \in AdapterRaisesAt(g.st.objects[g.engine]),
            fault \in {"none", "save", "cleanup"}}

\* the try block of process_bytes, lines 142-160
TryProcessBytes(g, engine_name, at) ==
    LET looked == AfterGetEngine(g, engine_name, "").trace
        p == Process(g.st.objects, g.engine, at)
        c == g.st.objects[g.engine].cls
        processed == [looked EXCEPT
                         !.invoked = <<Invoked(g.engine, "process_bytes")>>]
        st == [g.st EXCEPT !.objects = p.objects]
    IN IF ~p.ok
       THEN Handled(st, g.proc, [processed EXCEPT !.faults = <<"process">>],
                    p.err, engine_name, "", g.engine)
       ELSE [st |-> st, proc |-> g.proc, trace |-> processed,
             outcome |-> Outcome(TRUE, NoErr, engine_name, "",
                                 EngineName(c), FALSE, g.engine),
             raised |-> NoErr]

\* engine_name = engine_name or self.default_engine
RequestedEngine(engineArg) ==
    IF engineArg = NoneArg THEN ProcessorDefault ELSE ValueOf(engineArg)

\* A process_document that goes to the engine without looking at the path.
ProcessDocumentUnchecked(st, proc, imp, file, engineArg) ==
    UNION {ProcessWithEngine(g, file, RequestedEngine(engineArg))
           : g \in GetEngine(st, proc, imp, RequestedEngine(engineArg))}

\* DocumentProcessor.process_document(file_path, engine_name, output_formats)
ProcessDocument(st, proc, imp, file, engineArg) ==
    IF ~file.exists
    THEN {[st |-> st, proc |-> proc, trace |-> NoTrace,
           outcome |-> Outcome(FALSE, FileNotFound(file.path), "", file.path,
                               "", FALSE, NoInst),
           raised |-> NoErr]}
    ELSE IF Lower(file.suffix) \notin SUPPORTED_EXTENSIONS
    THEN {[st |-> st, proc |-> proc, trace |-> NoTrace,
           outcome |-> Outcome(FALSE, UnsupportedFormat(file.suffix), "",
                               file.path, "", FALSE, NoInst),
           raised |-> NoErr]}
    ELSE LET engine_name == RequestedEngine(engineArg)
         IN UNION {ProcessWithEngine(g, file, engine_name)
                   : g \in GetEngine(st, proc, imp, engine_name)}

\* DocumentProcessor.process_bytes(image_bytes, engine_name, filename)
ProcessBytes(st, proc, imp, engineArg) ==
    LET engine_name == RequestedEngine(engineArg) IN
    UNION {
      IF g.raised # NoErr \/ g.engine = NoInst
      THEN {AfterGetEngine(g, engine_name, "")}
      ELSE {TryProcessBytes(g, engine_name, at)
            : at \in AdapterRaisesAt(g.st.objects[g.engine])}
      : g \in GetEngine(st, proc, imp, engine_name) }

TraceJoin(t, u) ==
    [lookups |-> t.lookups \o u.lookups, ctors |-> t.ctors \o u.ctors,
     invoked |-> t.invoked \o u.invoked, faults |-> t.faults \o u.faults]

RECURSIVE BatchLoopStopsAtFailure(_, _, _, _, _, _, _)
\* A loop that returns what it has at the first failed outcome.
BatchLoopStopsAtFailure(st, proc, imp, files, i, engineArg, acc) ==
    IF i > Len(files)
    THEN {[st |-> st, proc |-> proc, results |-> acc.results,
           trace |-> acc.trace, raised |-> NoErr]}
    ELSE UNION {
           IF ~d.outcome.success
           THEN {[st |-> d.st, proc |-> d.proc,
                  results |-> Append(acc.results, d.outcome),
                  trace |-> TraceJoin(acc.trace, d.trace),
                  raised |-> d.raised]}
           ELSE BatchLoopStopsAtFailure(
                    d.st, d.proc, imp, files, i + 1, engineArg,
                    [results |-> Append(acc.results, d.outcome),
                     trace |-> TraceJoin(acc.trace, d.trace)])
           : d \in ProcessDocument(st, proc, imp, files[i], engineArg)}

RECURSIVE BatchLoop(_, _, _, _, _, _, _)
\* for i, file_path in enumerate(files, 1):
\*     results.append(self.process_document(file_path, engine_name, ...))
BatchLoop(st, proc, imp, files, i, engineArg, acc) ==
    IF i > Len(files)
    THEN {[st |-> st, proc |-> proc, results |-> acc.results,
           trace |-> acc.trace, raised |-> NoErr]}
    ELSE UNION {
           IF d.raised # NoErr
           \* an exception leaving process_document leaves the loop
           THEN {[st |-> d.st, proc |-> d.proc, results |-> acc.results,
                  trace |-> TraceJoin(acc.trace, d.trace),
                  raised |-> d.raised]}
           ELSE BatchLoop(d.st, d.proc, imp, files, i + 1, engineArg,
                          [results |-> Append(acc.results, d.outcome),
                           trace |-> TraceJoin(acc.trace, d.trace)])
           : d \in ProcessDocument(st, proc, imp, files[i], engineArg)}

\* An enumeration that keeps every entry it visits, whatever its suffix.
EnumeratedUnfiltered(entries, recursive) ==
    SelectSeq(entries, LAMBDA f : recursive \/ f.depth = 0)

\* the files batch_process enumerates: input_dir.rglob("*") or
\* input_dir.glob("*"), kept when the lower-cased suffix is supported
EnumeratedFiles(entries, recursive) ==
    SelectSeq(entries,
              LAMBDA f : /\ recursive \/ f.depth = 0
                         /\ Lower(f.suffix) \in SUPPORTED_EXTENSIONS)

\* DocumentProcessor.batch_process(input_dir, engine_name, recursive,
\*                                 output_formats)
\* exists, entries: whether input_dir exists and what it holds, in the
\* order the file system enumerates it
BatchProcess(st, proc, imp, exists, entries, engineArg, recursive) ==
    LET files == EnumeratedFiles(entries, recursive)
        Only(e) ==
            {[st |-> st, proc |-> proc, trace |-> NoTrace, raised |-> NoErr,
              results |-> <<Outcome(FALSE, e, "", "", "", FALSE, NoInst)>>]}
    IN IF ~exists THEN Only(DirectoryNotFound)
       ELSE IF files = <<>> THEN Only(NoSupportedFiles)
       ELSE BatchLoop(st, proc, imp, files, 1, engineArg,
                      [results |-> <<>>, trace |-> NoTrace])

\* what a directory may hold
DirEntries ==
    { File("a.pdf", ".pdf", TRUE, 0),
      File("sub/b.PNG", ".PNG", TRUE, 1),
      File("c.Xyz", ".Xyz", TRUE, 0) }

\* the directories handed to batch_process: every enumeration order of up
\* to MaxDir entries
Directories ==
    {l \in SeqsUpTo(DirEntries, MaxDir) :
        \A i, j \in 1..Len(l) : i # j => l[i] # l[j]}

\* the state after a processor call with outcome r, recorded as call;
\* n is the number of process_document and process_bytes calls it stands for
ProcessorBecomes(r, call, n) ==
    /\ calls + n <= MaxDocs
    /\ r.st.nextId <= MaxInst + 1
    /\ calls' = calls + n
    /\ engines' = r.st.engines
    /\ instances' = r.st.instances
    /\ objects' = r.st.objects
    /\ nextId' = r.st.nextId
    /\ processor' = r.proc
    /\ outcome' = call
    /\ UNCHANGED <<importable, last, request, selection, threads>>

\* a processor built on a factory not used before
InitProcessor ==
    /\ InitFactory
    /\ processor \in {[NoProcessor EXCEPT !.config = c] : c \in ProcessorConfigs}
    /\ outcome = NoProcessorCall
    /\ request = NoRequest
    /\ selection = NoSelection

\* processor.process_document(file_path, engine_name)
ProcessDocumentCall ==
    /\ calls < MaxDocs
    /\ \E file \in Files, engineArg \in EngineArgs :
      \E r \in ProcessDocument(Factory, processor, importable, file, engineArg) :
        ProcessorBecomes(r, [NoProcessorCall EXCEPT
                                !.op = "process_document",
                                !.path = file.path, !.exists = file.exists,
                                !.entries = <<file>>,
                                !.engineArg = engineArg,
                                !.results = <<r.outcome>>,
                                !.raised = r.raised,
                                !.trace = r.trace], 1)

\* processor.process_bytes(image_bytes, engine_name)
ProcessBytesCall ==
    /\ calls < MaxDocs
    /\ \E engineArg \in EngineArgs :
      \E r \in ProcessBytes(Factory, processor, importable, engineArg) :
        ProcessorBecomes(r, [NoProcessorCall EXCEPT
                                !.op = "process_bytes",
                                !.engineArg = engineArg,
                                !.results = <<r.outcome>>,
                                !.raised = r.raised,
                                !.trace = r.trace], 1)

\* processor.batch_process(input_dir, engine_name, recursive)
BatchProcessCall ==
    /\ calls < MaxDocs
    /\ \E exists \in BOOLEAN, engineArg \in EngineArgs, recursive \in BOOLEAN :
      \E entries \in (IF exists THEN Directories ELSE {<<>>}) :
        /\ calls + Len(EnumeratedFiles(entries, recursive)) <= MaxDocs
        /\ \E r \in BatchProcess(Factory, processor, importable, exists, entries,
                              engineArg, recursive) :
          ProcessorBecomes(r, [NoProcessorCall EXCEPT
                                  !.op = "batch_process",
                                  !.exists = exists, !.entries = entries,
                                  !.recursive = recursive,
                                  !.engineArg = engineArg,
                                  !.files = EnumeratedFiles(entries, recursive),
                                  !.results = r.results,
                                  !.raised = r.raised,
                                  !.trace = r.trace],
                           IF Len(r.trace.lookups) = 0 THEN 1
                           ELSE Len(r.trace.lookups))

\* A document processor on top of the factory, handed single documents.
NextProcessor ==
    \/ ProcessDocumentCall
    \/ ProcessBytesCall

SpecProcessor == InitProcessor /\ [][NextProcessor]_vars

\* OCREngineFactory.clear_cache() by another user of the factory, while the
\* processor is alive
ProcessorClearCache ==
    /\ \E raising \in SUBSET CacheInsts(instances) :
         LET r == ClearCache(Factory, raising)
         IN /\ instances' = r.instances
            /\ objects' = r.objects
            /\ last' = [NoCall EXCEPT !.op = "clear", !.err = r.err,
                                      !.cleared = instances]
    /\ UNCHANGED <<importable, engines, nextId, calls, processor, outcome,
                   request, selection, threads>>

\* The processor on a factory whose cache is cleared between its calls.
NextProcessorClear ==
    \/ ProcessDocumentCall
    \/ ProcessBytesCall
    \/ ProcessorClearCache

SpecProcessorClear == InitProcessor /\ [][NextProcessorClear]_vars

\* an image handed to a processor that has seen no directory yet
ImageBeforeBatch ==
    /\ outcome.op # "batch_process"
    /\ ProcessBytesCall

\* the one directory of a run
BatchAfterImages ==
    /\ outcome.op # "batch_process"
    /\ BatchProcessCall

\* A document processor handed images and then one directory.
NextBatch ==
    \/ ImageBeforeBatch
    \/ BatchAfterImages

SpecBatch == InitProcessor /\ [][NextBatch]_vars

(***************************************************************************)
(* Remote-API adapter: MistralOCREngine._make_request                      *)
(* (engines/mistral_ocr_engine.py).                                        *)
(*                                                                         *)
(* request is the loop of one _make_request call: attempt counts the       *)
(* passes of "for attempt in range(self.retry_attempts)" made so far,      *)
(* responses lists what each post() met, slept the arguments of            *)
(* time.sleep, and pc tells whether the call is running, has returned      *)
(* (ret) or has raised (err).  What post() meets is the environment's      *)
(* choice.                                                                 *)
(***************************************************************************)
MAX_RETRIES == 3
INITIAL_BACKOFF == 1

\* self.retry_attempts = config.get("retry_attempts", self.MAX_RETRIES)
RetryAttempts == {MAX_RETRIES, 1, MAX_RETRIES + 1}

\* an HTTP response: its status, whether response.json() parses its body,
\* and its Retry-After header ("" when absent)
Http(status, json, retry_after) ==
    [kind |-> "http", status |-> status, json |-> json,
     retry_after |-> retry_after]

\* an exception raised by post(): a builtin ConnectionError or TimeoutError,
\* or an exception of the HTTP library that derives from neither
PostRaises(exc) ==
    [kind |-> exc, status |-> 0, json |-> FALSE, retry_after |-> ""]

\* what one post() can meet
Responses ==
    {Http(s, TRUE, "") : s \in {200, 400, 404, 429, 500, 503}}
    \cup {Http(429, TRUE, "3"), Http(429, TRUE, "Wed, 21 Oct 2026 07:28:00 GMT")}
    \cup {Http(500, FALSE, ""), Http(404, FALSE, "")}
    \cup {PostRaises("ConnectionError"), PostRaises("TimeoutError"),
          PostRaises("httpx.ConnectError")}

\* RuntimeError(f"API error {response.status_code}: {error_msg}")
ApiError(status) ==
    [type |-> "API error", exc |-> "RuntimeError", id |-> ToString(status),
     available |-> {}, errors |-> <<>>]

\* RuntimeError(f"All {self.retry_attempts} attempts failed. Last error: {last_error}")
AllAttemptsFailed(retry_attempts, last_error) ==
    [type |-> "All attempts failed", exc |-> "RuntimeError",
     id |-> ToString(retry_attempts), available |-> {},
     errors |-> <<last_error>>]

\* the exception response.json() raises on a body that is not JSON
JsonError ==
    [type |-> "json", exc |-> "ValueError", id |-> "", available |-> {},
     errors |-> <<>>]

\* the exception int() raises on a Retry-After header that is a date
RetryAfterError(header) ==
    [type |-> "int", exc |-> "ValueError", id |-> header, available |-> {},
     errors |-> <<>>]

\* an exception of post() that "except (ConnectionError, TimeoutError)"
\* does not catch
PostError(exc) ==
    [type |-> "post", exc |-> exc, id |-> "", available |-> {},
     errors |-> <<>>]

\* int(response.headers.get("Retry-After", backoff * 2)) for the headers of
\* the model
RetryAfter(header, backoff) ==
    IF header = "" THEN backoff * 2 ELSE 3

\* A status test that sends every status from 400 on back into the loop.
RetriedStatusAll(status) == status >= 400

\* the statuses after which the loop sleeps and continues: 429 and 5xx
RetriedStatus(status) == status = 429 \/ status >= 500

\* A "continue" branch that sleeps but leaves backoff as it is.
ContinueConstantBackoff(req, resp, seconds, last_error) ==
    LET done == req.attempt + 1 = req.retry_attempts
    IN [req EXCEPT
          !.attempt = @ + 1,
          !.responses = Append(@, resp),
          !.slept = Append(@, seconds),
          !.last_error = last_error,
          !.pc = IF done THEN "raised" ELSE "running",
          !.err = IF done
                  THEN AllAttemptsFailed(req.retry_attempts, last_error)
                  ELSE NoErr]

\* the loop after a pass that ended in "continue": the next pass, or the
\* raise after the loop when range(self.retry_attempts) is used up
Continue(req, resp, seconds, last_error) ==
    LET done == req.attempt + 1 = req.retry_attempts
    IN [req EXCEPT
          !.attempt = @ + 1,
          !.responses = Append(@, resp),
          !.slept = Append(@, seconds),
          !.backoff = @ * 2,
          !.last_error = last_error,
          !.pc = IF done THEN "raised" ELSE "running",
          !.err = IF done
                  THEN AllAttemptsFailed(req.retry_attempts, last_error)
                  ELSE NoErr]

\* a pass that ends _make_request with an exception
Raise(req, resp, e) ==
    [req EXCEPT !.attempt = @ + 1, !.responses = Append(@, resp),
                !.pc = "raised", !.err = e]

\* one pass of the loop of _make_request that meets resp
Pass(req, resp) ==
    IF resp.kind \in {"ConnectionError", "TimeoutError"}
    THEN Continue(req, resp, req.backoff, resp.kind)
    ELSE IF resp.kind # "http" THEN Raise(req, resp, PostError(resp.kind))
    ELSE IF ~resp.json THEN Raise(req, resp, JsonError)
    ELSE IF RetriedStatus(resp.status)
    THEN IF resp.status = 429
         THEN IF resp.retry_after \notin {"", "3"}
              THEN Raise(req, resp, RetryAfterError(resp.retry_after))
              ELSE Continue(req, resp,
                            RetryAfter(resp.retry_after, req.backoff),
                            req.last_error)
         ELSE Continue(req, resp, req.backoff, req.last_error)
    ELSE IF resp.status >= 400
    THEN Raise(req, resp, ApiError(resp.status))
    ELSE [req EXCEPT !.attempt = @ + 1, !.responses = Append(@, resp),
                     !.pc = "returned", !.ret = <<resp>>]

\* an adapter that has sent no request
InitRequest ==
    /\ InitFactory
    /\ importable = ProbedModules
    /\ processor = NoProcessor
    /\ outcome = NoProcessorCall
    /\ request = NoRequest
    /\ selection = NoSelection

\* self._make_request(endpoint, data, files) begins, on an adapter
\* configured with retry_attempts
MakeRequest ==
    /\ request.pc # "running"
    /\ calls < MaxRequests
    /\ \E n \in RetryAttempts :
         request' = [NoRequest EXCEPT !.pc = "running", !.retry_attempts = n,
                                      !.backoff = INITIAL_BACKOFF]
    /\ calls' = calls + 1
    /\ UNCHANGED <<importable, engines, instances, objects, nextId, last,
                   processor, outcome, selection, threads>>

\* one pass of "for attempt in range(self.retry_attempts)"
Attempt ==
    /\ request.pc = "running"
    /\ request.attempt < request.retry_attempts
    /\ \E resp \in Responses : request' = Pass(request, resp)
    /\ UNCHANGED <<importable, engines, instances, objects, nextId, last,
                   calls, processor, outcome, selection, threads>>

\* The request loop of the remote-API adapter.
NextRequest ==
    \/ MakeRequest
    \/ Attempt

SpecRequest == InitRequest /\ [][NextRequest]_vars

\* The request loop as the interpreter runs it: a "for" loop that has passes
\* left goes on to the next one (post() has a timeout and time.sleep returns).
SpecRequestLive == SpecRequest /\ WF_vars(Attempt)

(***************************************************************************)
(* Engine selection: OCREngineFactory.auto_select_engine                   *)
(* (core/ocr_factory.py).                                                  *)
(*                                                                         *)
(* selection records the last call: its arguments (document_type "" and    *)
(* has_gpu NoneArg stand for None), the id it returned (ret), every id it  *)
(* could have returned in the same state with the same arguments (rets),   *)
(* and seq, the number of the call in the run.                             *)
(***************************************************************************)
\* SelectionPriority
Priorities == {"speed", "accuracy", "cost", "balanced"}

\* DocumentComplexity
Complexities == {"low", "medium", "high"}

\* the document_type arguments: None, one of each list of the accuracy
\* branch, and a type in none of them
DocumentTypes == {"", "manuscript", "invoice", "table", "letter"}

\* the has_gpu arguments
GpuArgs == {NoneArg, Given(TRUE), Given(FALSE)}

\* what _detect_gpu() can answer
DetectGpu == BOOLEAN

\* the modules whose import the runs with auto_select_engine let succeed or
\* fail
SelectModules ==
    {"engines.tesseract_engine", "engines.easyocr_engine",
     "engines.gutenocr_engine", "engines.mistral_ocr_engine"}

\* the "cost" entry of get_engine_info() for an engine id
CostOf(id) == IF id = "mistral_ocr" THEN "$2/1000 pages" ELSE "free"

\* A cost branch that prefers the remote API.
CostChoicePaid(eng) ==
    IF "mistral_ocr" \in DOMAIN eng THEN "mistral_ocr" ELSE "paddleocr"

\* if priority == SelectionPriority.COST: ...
CostChoice(eng) ==
    IF "tesseract" \in DOMAIN eng THEN "tesseract"
    ELSE IF "easyocr" \in DOMAIN eng THEN "easyocr"
    ELSE "paddleocr"

\* if priority == SelectionPriority.SPEED: ...
SpeedChoice(eng, complexity) ==
    IF complexity = "low"
    THEN IF "tesseract" \in DOMAIN eng THEN "tesseract" ELSE "paddleocr"
    ELSE IF "gutenocr" \in DOMAIN eng THEN "gutenocr-3b" ELSE "surya"

\* if priority == SelectionPriority.ACCURACY: ...
AccuracyChoice(eng, document_type, has_gpu) ==
    IF document_type \in {"manuscript", "historical", "handwriting"}
    THEN IF "gutenocr" \in DOMAIN eng /\ has_gpu THEN "gutenocr-7b"
         ELSE IF "gutenocr" \in DOMAIN eng THEN "gutenocr-3b" ELSE "hunyuan"
    ELSE IF document_type \in {"form", "invoice", "technical", "structured"}
    THEN IF "mistral_ocr" \in DOMAIN eng THEN "mistral_ocr"
         ELSE IF "gutenocr" \in DOMAIN eng THEN "gutenocr-3b" ELSE "surya"
    ELSE IF document_type \in {"table", "spreadsheet"}
    THEN IF "mistral_ocr" \in DOMAIN eng THEN "mistral_ocr"
         ELSE IF "surya" \in DOMAIN eng THEN "surya" ELSE "paddleocr"
    ELSE IF "gutenocr" \in DOMAIN eng THEN "gutenocr-3b"
         ELSE IF "surya" \in DOMAIN eng THEN "surya" ELSE "paddleocr"

\* the balanced branch, the default
BalancedChoice(eng, complexity, has_gpu) ==
    IF complexity = "high"
    THEN IF has_gpu /\ "gutenocr" \in DOMAIN eng THEN "gutenocr-7b"
         ELSE IF "mistral_ocr" \in DOMAIN eng THEN "mistral_ocr"
         ELSE IF "gutenocr" \in DOMAIN eng THEN "gutenocr-3b" ELSE "surya"
    ELSE IF complexity = "medium"
    THEN IF "gutenocr" \in DOMAIN eng THEN "gutenocr-3b"
         ELSE IF "surya" \in DOMAIN eng THEN "surya" ELSE "paddleocr"
    ELSE IF "surya" \in DOMAIN eng THEN "surya"
         ELSE IF "paddleocr" \in DOMAIN eng THEN "paddleocr" ELSE "tesseract"

\* auto_select_engine after _ensure_engines_registered() and the detection
\* of the GPU: eng is the registry, has_gpu a boolean
AutoSelect(eng, priority, document_type, complexity, has_gpu) ==
    IF priority = "cost" THEN CostChoice(eng)
    ELSE IF priority = "speed" THEN SpeedChoice(eng, complexity)
    ELSE IF priority = "accuracy"
    THEN AccuracyChoice(eng, document_type, has_gpu)
    ELSE BalancedChoice(eng, complexity, has_gpu)

\* if has_gpu is None: has_gpu = cls._detect_gpu()
GpuValues(gpuArg) == IF gpuArg = NoneArg THEN DetectGpu ELSE gpuArg

\* A selection that empties the instance cache.
AfterSelectCleared(st, imp) ==
    [st EXCEPT !.engines = EnsureRegistered(st.engines, imp),
               !.instances = <<>>]

\* the factory as auto_select_engine leaves it: its only write is the one
\* of _ensure_engines_registered()
AfterSelect(st, imp) ==
    [st EXCEPT !.engines = EnsureRegistered(st.engines, imp)]

\* a factory not used before, in an installation where any of
\* SelectModules may be missing
InitSelect ==
    /\ threads = NoThreads
    /\ importable \in SUBSET SelectModules
    /\ engines = EmptyDict
    /\ instances = <<>>
    /\ objects = [i \in {} |-> NewAdapter("", <<>>, FALSE)]
    /\ nextId = 1
    /\ last = NoCall
    /\ calls = 0
    /\ processor = NoProcessor
    /\ outcome = NoProcessorCall
    /\ request = NoRequest
    /\ selection = NoSelection

\* OCREngineFactory.auto_select_engine(priority, document_type, complexity,
\*                                     has_gpu)
AutoSelectCall ==
    /\ calls < MaxSelect
    /\ \E priority \in Priorities, document_type \in DocumentTypes,
          complexity \in Complexities, gpuArg \in GpuArgs :
         LET st == AfterSelect(Factory, importable)
             Ret(g) == AutoSelect(st.engines, priority, document_type,
                                  complexity, g)
         IN \E has_gpu \in GpuValues(gpuArg) :
              /\ selection' = [op |-> "auto_select", seq |-> calls + 1,
                               priority |-> priority,
                               document_type |-> document_type,
                               complexity |-> complexity,
                               has_gpu |-> gpuArg, ret |-> Ret(has_gpu),
                               rets |-> {Ret(g) : g \in GpuValues(gpuArg)}]
              /\ engines' = st.engines
              /\ instances' = st.instances
              /\ objects' = st.objects
              /\ nextId' = st.nextId
    /\ calls' = calls + 1
    /\ UNCHANGED <<importable, last, processor, outcome, request, threads>>

\* the one selection of a run
SelectOnce ==
    /\ selection.op = "none"
    /\ AutoSelectCall

\* register_engine before the selection
RegisterBeforeSelect ==
    /\ selection.op = "none"
    /\ calls + 1 < MaxSelect
    /\ RegisterEngine

\* create_engine before the selection
CreateBeforeSelect ==
    /\ selection.op = "none"
    /\ calls + 1 < MaxSelect
    /\ CreateEngineWith({TRUE})

\* The factory with its selector: calls that fill registry and cache, then
\* one selection.
NextSelect ==
    \/ SelectOnce
    \/ RegisterBeforeSelect
    \/ CreateBeforeSelect

SpecSelect == InitSelect /\ [][NextSelect]_vars

\* the modules whose import decides the balanced branch for documents of
\* low complexity
BalancedModules ==
    {"engines.paddleocr_engine", "engines.surya_engine",
     "engines.tesseract_engine"}

\* a factory not used before, in an installation where any of
\* BalancedModules may be missing
InitBalanced ==
    /\ threads = NoThreads
    /\ importable \in SUBSET BalancedModules
    /\ engines = EmptyDict
    /\ instances = <<>>
    /\ objects = [i \in {} |-> NewAdapter("", <<>>, FALSE)]
    /\ nextId = 1
    /\ last = NoCall
    /\ calls = 0
    /\ processor = NoProcessor
    /\ outcome = NoProcessorCall
    /\ request = NoRequest
    /\ selection = NoSelection

\* The selector over registries of traditional engines and surya.
SpecBalanced == InitBalanced /\ [][NextSelect]_vars

(***************************************************************************)
(* The registry across calls (core/ocr_factory.py).                        *)
(*                                                                         *)
(* Whether "from engines.x import X" succeeds is decided each time the     *)
(* statement runs: a module that was missing can be importable later.      *)
(***************************************************************************)
\* a module of ProbedModules that failed to import becomes importable
InstallModule ==
    /\ last.op # "compare"
    /\ selection.op = "none"
    /\ \E m \in ProbedModules \ importable : importable' = importable \cup {m}
    /\ UNCHANGED <<engines, instances, objects, nextId, last, calls, processor,
                   outcome, request, selection, threads>>

\* The factory and every caller of _ensure_engines_registered, in an
\* installation that changes.
\* a run goes on until its bound, or until a comparison or a selection,
\* which is the last call of its run
RegistryOpen ==
    /\ calls < MaxRegistryCalls
    /\ last.op # "compare"
    /\ selection.op = "none"

RegistryRegister == RegistryOpen /\ RegisterEngine
RegistryAvailable == RegistryOpen /\ GetAvailableEngines
RegistryCreate == RegistryOpen /\ CreateCachedCall
RegistryCompare == RegistryOpen /\ CompareEnginesCall
RegistrySelect == RegistryOpen /\ AutoSelectCall

NextRegistry ==
    \/ InstallModule
    \/ RegistryRegister
    \/ RegistryAvailable
    \/ RegistryCreate
    \/ RegistryCompare
    \/ RegistrySelect

SpecRegistry == Init /\ [][NextRegistry]_vars

(***************************************************************************)
(* The instance cache across the calls of the factory.                     *)
(***************************************************************************)
\* a run goes on until a comparison or a selection, which is its last call
CacheOpen ==
    /\ last.op # "compare"
    /\ selection.op = "none"

CacheRegister == CacheOpen /\ RegisterEngine
CacheCreate == CacheOpen /\ CreateEngineCall
CacheClear == CacheOpen /\ ClearCacheCall
CacheCompare == CacheOpen /\ calls < MaxCalls /\ CompareEnginesCall
CacheSelect == CacheOpen /\ calls < MaxCalls /\ AutoSelectCall

\* Every call of the factory that can meet the cache.
NextCache ==
    \/ CacheRegister
    \/ CacheCreate
    \/ CacheClear
    \/ CacheCompare
    \/ CacheSelect

SpecCache == Init /\ [][NextCache]_vars

(***************************************************************************)
(* create_engine called from several threads (core/ocr_factory.py).        *)
(*                                                                         *)
(* The method takes no lock, so the interpreter may switch threads between *)
(* its statements.  threads[t] is the call of thread t: pc is the          *)
(* statement it stands before ("check": the cache test of line 76,         *)
(* "construct": engine_class(config) of line 101, "store": the cache write *)
(* of line 105), inst the object its constructor returned, ret what the    *)
(* call returned, err what it raised.  The calls pass use_fallback=False   *)
(* and cache_instance=True.                                                *)
(***************************************************************************)
\* the ids the threads ask for
ThreadIds == {"paddleocr", "tesseract"}

\* thread t calls create_engine(engine_name, cfg, use_fallback=False) and
\* runs cls._ensure_engines_registered()
ThreadBegin(t) ==
    /\ threads[t].pc = "idle"
    /\ \E engine_name \in ThreadIds, cfg \in Configs :
         threads' = [threads EXCEPT ![t] =
                       [NoThread EXCEPT !.pc = "check",
                                        !.engine_name = engine_name,
                                        !.cfg = cfg]]
    /\ engines' = EnsureRegistered(engines, importable)
    /\ UNCHANGED <<importable, instances, objects, nextId, last, calls,
                   processor, outcome, request, selection>>

\* lines 75-98 in thread t: the cache test and the two tests before the
\* constructor
ThreadCheck(t) ==
    /\ threads[t].pc = "check"
    /\ LET th == threads[t]
           cache_key == CacheKey(th.engine_name, th.cfg)
       IN threads' = [threads EXCEPT ![t] =
            IF CacheHas(instances, cache_key)
            THEN [th EXCEPT !.pc = "returned",
                            !.ret = CacheGet(instances, cache_key)]
            ELSE IF th.engine_name \notin DOMAIN engines
            THEN [th EXCEPT !.pc = "raised",
                            !.err = EngineNotFound(th.engine_name,
                                                   DOMAIN engines)]
            ELSE IF ~Truthy(ConfigGet(th.cfg, "enabled", "True"))
            THEN [th EXCEPT !.pc = "raised",
                            !.err = EngineDisabled(th.engine_name)]
            ELSE [th EXCEPT !.pc = "construct"]]
    /\ UNCHANGED <<importable, engines, instances, objects, nextId, last,
                   calls, processor, outcome, request, selection>>

\* lines 100-101 in thread t: instance = engine_class(config), which
\* returns or raises
ThreadConstruct(t) ==
    /\ threads[t].pc = "construct"
    /\ nextId <= MaxInst
    /\ LET th == threads[t]
           c == engines[th.engine_name]
       IN \/ /\ threads' = [threads EXCEPT ![t] =
                              [th EXCEPT !.pc = "store", !.inst = nextId]]
             /\ objects' = DictSet(objects, nextId,
                                   NewAdapter(c, th.cfg, FALSE))
             /\ nextId' = nextId + 1
          \/ /\ threads' = [threads EXCEPT ![t] =
                              [th EXCEPT !.pc = "raised",
                                         !.err = CtorError(c)]]
             /\ UNCHANGED <<objects, nextId>>
    /\ UNCHANGED <<importable, engines, instances, last, calls, processor,
                   outcome, request, selection>>

\* lines 104-107 in thread t: cls._instances[cache_key] = instance and the
\* return
ThreadStore(t) ==
    /\ threads[t].pc = "store"
    /\ LET th == threads[t]
       IN /\ instances' = CachePut(instances,
                                   CacheKey(th.engine_name, th.cfg), th.inst)
          /\ threads' = [threads EXCEPT ![t] =
                           [th EXCEPT !.pc = "returned", !.ret = th.inst]]
    /\ UNCHANGED <<importable, engines, objects, nextId, last, calls,
                   processor, outcome, request, selection>>

\* The factory used by MaxThreads threads, one create_engine call each.
NextThreads ==
    \E t \in 1..MaxThreads :
        \/ ThreadBegin(t)
        \/ ThreadCheck(t)
        \/ ThreadConstruct(t)
        \/ ThreadStore(t)

SpecThreads == Init /\ [][NextThreads]_vars

(***************************************************************************)
(* Properties of create_engine, _create_with_fallback and clear_cache      *)
(* (checked under Spec)                                                    *)
(***************************************************************************)
\* the step is a call (not a stuttering step) of create_engine
CreateStep == calls' = calls + 1 /\ last'.op = "create"

\* the step repeats the engine id and the config of the create_engine call
\* before it, with cache_instance=True
RepeatsCreate ==
    /\ last.op = "create"
    /\ CreateStep
    /\ last'.id = last.id
    /\ last'.cfg = last.cfg
    /\ last'.ci

\* C1: when two consecutive create_engine calls with cache_instance=True
\* name the same engine id and configs with the same string form, and the
\* first returned an instance, the second returns that very instance and
\* calls no constructor.  More generally, a create_engine call with
\* cache_instance=True leaves what it returns in the cache under its key,
\* and one that finds its key in the cache returns the stored instance,
\* calls no constructor and leaves the cache as it was.
C1_SecondCallReturnsCached ==
    [][/\ (RepeatsCreate /\ last.ci /\ last.ret # NoInst)
          => (/\ last'.ret = last.ret
              /\ last'.ctors = <<>>
              /\ last'.err = NoErr)
       /\ (CreateStep /\ last'.ci /\ last'.ret # NoInst)
          => (/\ CacheHas(instances', CacheKey(last'.id, last'.cfg))
              /\ CacheGet(instances', CacheKey(last'.id, last'.cfg))
                 = last'.ret)
       /\ (/\ CreateStep /\ last'.ci
           /\ CacheHas(instances, CacheKey(last'.id, last'.cfg)))
          => (/\ last'.ret = CacheGet(instances, CacheKey(last'.id, last'.cfg))
              /\ last'.ctors = <<>>
              /\ instances' = instances)]_vars

\* the second of two calls, answered from the cache the first one filled
C1_Witness ==
    /\ calls = 2
    /\ last.op = "create" /\ last.ci /\ last.hit
    /\ last.ret # NoInst
    /\ ~objects[last.ret].fb

\* C2: create_engine with use_fallback=False for an id the registry does not
\* hold raises the "inconnu" ValueError naming the id and the registered ids,
\* and returns nothing.
C2_UnknownIdRaises ==
    (last.op = "create" /\ ~last.uf /\ last.id \notin DOMAIN engines)
    => (last.ret = NoInst
        /\ last.err = EngineNotFound(last.id, DOMAIN engines))

\* C3: when a create_engine call with use_fallback=True and
\* cache_instance=True returned an instance built by the fallback loop, the
\* next create_engine call with the same id and config returns that very
\* instance and calls no constructor.
C3_FallbackInstanceCached ==
    [][(/\ RepeatsCreate
        /\ last.uf /\ last.ci /\ ~last.hit
        /\ last.ret # NoInst
        /\ last.ctors # <<>>
        /\ last.ctors[Len(last.ctors)].via = "fallback")
       => (/\ last'.hit
           /\ last'.ret = last.ret
           /\ last'.ctors = <<>>)]_vars

\* the second of two calls, answered by the instance the fallback loop built
\* in the first
C3_Witness ==
    /\ calls = 2
    /\ last.op = "create" /\ last.hit
    /\ last.ret # NoInst
    /\ objects[last.ret].fb

\* the registered members of the fallback chain, in chain order
RegisteredChain(eng) ==
    SelectSeq(FALLBACK_CHAIN, LAMBDA e : e \in DOMAIN eng)

\* C4: when create_engine resorts to the fallback chain and no constructor
\* it calls returns, it raises the "Aucun moteur disponible" ValueError whose
\* list holds one entry per registered chain member, in chain order; members
\* the registry does not hold are not tried; the cache is left as it was.
C4_NoEngineAvailable ==
    [][(/\ CreateStep
        /\ last'.uf /\ ~last'.hit
        /\ \A i \in 1..Len(last'.ctors) : ~last'.ctors[i].ok)
       => (/\ last'.ret = NoInst
           /\ last'.err = NoEngineAvailable(RegisteredChain(engines'))
           /\ LET tried == SelectSeq(last'.ctors,
                                     LAMBDA c : c.via = "fallback")
              IN /\ Len(tried) = Len(last'.err.errors)
                 /\ \A i \in 1..Len(tried) :
                        tried[i].cls = engines'[last'.err.errors[i]]
           /\ instances' = instances)]_vars

\* both registered chain members were tried and failed; easyocr, which the
\* registry does not hold, was skipped
C4_Witness ==
    /\ last.op = "create" /\ last.uf
    /\ last.err.type = "Aucun moteur disponible"
    /\ last.err.errors = <<"paddleocr", "tesseract">>
    /\ "easyocr" \notin DOMAIN engines

C6_DefaultArgumentsRaise ==
    (last.op = "create" /\ last.uf /\ last.ci /\ calls = 1)
    => (/\ last.id \notin DOMAIN engines
           => (/\ last.ret = NoInst
               /\ last.err.exc = "ValueError"
               /\ last.err.id = last.id)
        /\ (/\ last.id \in DOMAIN engines
            /\ ~Truthy(ConfigGet(last.cfg, "enabled", "True")))
           => (/\ last.ret = NoInst
               /\ last.err = EngineDisabled(last.id)))

\* C7: when the constructor of the requested engine raises, create_engine
\* with use_fallback=True goes to the fallback chain (and returns its
\* instance or raises its "Aucun moteur disponible" error), and with
\* use_fallback=False lets the constructor's exception through, calls no
\* other constructor and leaves the cache as it was.
C7_ConstructorFailure ==
    [][(/\ CreateStep
        /\ last'.ctors # <<>>
        /\ last'.ctors[1].via = "primary"
        /\ ~last'.ctors[1].ok)
       => IF last'.uf
          THEN \/ /\ last'.ret # NoInst
                  /\ objects'[last'.ret].fb
                  /\ last'.ctors[Len(last'.ctors)]
                     = CtorCall(objects'[last'.ret].cls, TRUE, TRUE)
                  /\ \E i \in 1..Len(FALLBACK_CHAIN) :
                        /\ FALLBACK_CHAIN[i] \in DOMAIN engines'
                        /\ engines'[FALLBACK_CHAIN[i]] = objects'[last'.ret].cls
               \/ /\ last'.ret = NoInst
                  /\ last'.err = NoEngineAvailable(RegisteredChain(engines'))
          ELSE /\ last'.ret = NoInst
               /\ last'.err = CtorError(engines'[last'.id])
               /\ last'.ctors = <<CtorCall(engines'[last'.id], FALSE, FALSE)>>
               /\ instances' = instances]_vars

\* the requested engine's constructor raised and use_fallback is False
C7_Witness ==
    /\ last.op = "create" /\ ~last.uf
    /\ last.err.type = "constructor"
    /\ last.ret = NoInst

(***************************************************************************)
(* Properties of compare_engines (checked under SpecCompare)               *)
(***************************************************************************)
\* the step is a call (not a stuttering step) of compare_engines
CompareStep == calls' = calls + 1 /\ last'.op = "compare"

\* the requested ids, as a set
RequestedIds(call) == {call.ids[i] : i \in 1..Len(call.ids)}

\* C8: every id compare_engines reports with success=True was processed by
\* an object of the class the registry holds for that id.
C8_SuccessFromOwnConstructor ==
    last.op = "compare"
    => \A n \in DOMAIN last.results :
          last.results[n].success
          => (/\ n \in DOMAIN engines
              /\ objects[last.results[n].inst].cls = engines[n])

\* C9: the results of compare_engines hold exactly one entry per requested
\* id.  An id the registry does not hold has success False and the "not
\* available" error; an id whose construction or processing raised has
\* success False and the exception as error; every entry with success True
\* belongs to an object that has processed the image.  The failure of one
\* id leaves the entries of the others in place, wherever it is in the list.
C9_OneEntryPerRequestedId ==
    last.op = "compare"
    => (/\ DOMAIN last.results = RequestedIds(last)
        /\ \A n \in DOMAIN last.results :
              LET e == last.results[n] IN
              /\ n \notin DOMAIN engines
                 => (~e.success /\ e.err = NotAvailable(n))
              /\ ~e.success => e.err # NoErr
              /\ e.success
                 => (/\ e.err = NoErr
                     /\ e.inst \in DOMAIN objects
                     /\ objects[e.inst].model))

\* two ids requested, the first failed and the second was processed
C9_Witness ==
    /\ last.op = "compare"
    /\ Len(last.ids) = 2
    /\ last.ids[1] # last.ids[2]
    /\ ~last.results[last.ids[1]].success
    /\ last.results[last.ids[2]].success

\* C10 as stated: the instance cache and the registry hold the same entries
\* after a compare_engines call as before it.
C10_CompareChangesNothing ==
    [][CompareStep => (instances' = instances /\ engines' = engines)]_vars

\* C10 as the code has it: compare_engines changes the registry only by the
\* built-in scan, which runs when the registry is empty; it removes and
\* replaces no cache entry; each entry it adds is stored under the key of a
\* requested, registered id and the call's config, and holds an object of
\* that id's registered class built in this call.
C10_CompareOnlyAddsOwnEntries ==
    [][CompareStep
       => (/\ engines' = EnsureRegistered(engines, importable)
           /\ DOMAIN engines # {} => engines' = engines
           /\ Len(instances') >= Len(instances)
           /\ SubSeq(instances', 1, Len(instances)) = instances
           /\ \A i \in (Len(instances) + 1)..Len(instances') :
                 \E n \in RequestedIds(last') \cap DOMAIN engines' :
                    /\ instances'[i].key = CacheKey(n, last'.cfg)
                    /\ instances'[i].inst \notin DOMAIN objects
                    /\ objects'[instances'[i].inst].cls = engines'[n]
                    /\ ~objects'[instances'[i].inst].fb)]_vars

\* a compare_engines call on a factory with an empty cache has left an entry
\* in the cache
C10_Witness ==
    /\ calls = 1
    /\ last.op = "compare"
    /\ instances # <<>>

(***************************************************************************)
(* Properties of the document processor, on the record of the last call    *)
(* (outcome): its results, the exception that left it (raised) and what    *)
(* happened inside it (trace).                                             *)
(***************************************************************************)
\* the last call was process_document or process_bytes
SingleCall == outcome.op \in {"process_document", "process_bytes"}

\* the last call went past the validation of its path
PastValidation == outcome.trace.lookups # <<>>

\* what raised inside the last call
Faults == {outcome.trace.faults[i] : i \in 1..Len(outcome.trace.faults)}

\* C11 as stated: process_document and process_bytes never raise; when the
\* engine cannot be created, the adapter's process/process_bytes raises or
\* saving raises, the dict has success=False and an error, and in every
\* other call that reaches the engine it has success=True.
C11_FailureOnlyOnThreeCauses ==
    SingleCall /\ PastValidation =>
        /\ outcome.raised = NoErr
        /\ IF Faults \cap {"create", "process", "save"} # {}
           THEN ~outcome.results[1].success /\ outcome.results[1].error # NoErr
           ELSE outcome.results[1].success

\* C11: process_document and process_bytes never raise; when the engine
\* cannot be created, the adapter's process/process_bytes raises, saving
\* raises or the adapter's cleanup() raises after saving, the dict has
\* success=False and an error; in every other call that reaches the engine
\* it has success=True and no error.
C11_NeverRaises ==
    SingleCall =>
        /\ outcome.raised = NoErr
        /\ Len(outcome.results) = 1
        /\ PastValidation =>
             IF Faults # {}
             THEN /\ Faults \subseteq {"create", "process", "save", "cleanup"}
                  /\ ~outcome.results[1].success
                  /\ outcome.results[1].error # NoErr
             ELSE /\ outcome.results[1].success
                  /\ outcome.results[1].error = NoErr

\* a call in which every constructor of the fallback chain raised, answered
\* by a failure dict
C11_Witness ==
    /\ SingleCall
    /\ Faults = {"create"}
    /\ Len(outcome.trace.ctors) >= 2
    /\ \A i \in 1..Len(outcome.trace.ctors) : ~outcome.trace.ctors[i].ok
    /\ ~outcome.results[1].success
    /\ outcome.results[1].error = FailedToCreate(outcome.trace.lookups[1])
    /\ outcome.raised = NoErr

\* the step is a process_document call on a path that fails validation:
\* a path that does not exist, or a file with an extension that lower-cases
\* to ".xyz"
RejectedPath ==
    /\ outcome'.op = "process_document"
    /\ \/ ~outcome'.entries[1].exists
       \/ outcome'.entries[1].suffix \in {".xyz", ".Xyz"}

\* C12: process_document on a path that does not exist returns success=False
\* with a "File not found" error, whatever the extension; on an existing
\* file whose lower-cased extension is not supported it returns
\* success=False with an "Unsupported file format" error; in both cases it
\* looks up, constructs and invokes no adapter, leaves the factory and the
\* processor as they were, and raises nothing.
C12_ValidatesBeforeEngine ==
    [][RejectedPath =>
         /\ outcome'.raised = NoErr
         /\ Len(outcome'.results) = 1
         /\ ~outcome'.results[1].success
         /\ outcome'.results[1].error =
              IF ~outcome'.entries[1].exists
              THEN FileNotFound(outcome'.entries[1].path)
              ELSE UnsupportedFormat(outcome'.entries[1].suffix)
         /\ outcome'.trace = NoTrace
         /\ UNCHANGED <<engines, instances, objects, nextId, processor>>]_vars

\* a path that does not exist and has an unsupported extension reported as
\* not found, on a processor that already holds an adapter
C12_Witness ==
    /\ outcome.op = "process_document"
    /\ ~outcome.entries[1].exists
    /\ outcome.entries[1].suffix = ".xyz"
    /\ outcome.results[1].error = FileNotFound("missing.xyz")
    /\ DOMAIN processor.engine_cache # {}

\* the last call was batch_process on a directory that exists
BatchDone == outcome.op = "batch_process" /\ outcome.exists

\* the entries of the directory of the last call that batch_process visits
\* (all of them, or those of the directory itself when recursive is off)
\* and whose extension is one of .pdf and .PNG
SupportedVisited ==
    {i \in 1..Len(outcome.entries) :
        /\ outcome.recursive \/ outcome.entries[i].depth = 0
        /\ outcome.entries[i].suffix \in {".pdf", ".PNG"}}

\* C13 as stated: batch_process on a directory with N supported and M
\* unsupported files returns exactly N outcomes, for every N >= 0.
C13_ExactlyNOutcomes ==
    BatchDone => Len(outcome.results) = Cardinality(SupportedVisited)

\* C13: batch_process on a directory with N >= 1 supported files returns
\* exactly N outcomes, none of them for an unsupported file; with N = 0 it
\* returns the single failure outcome "No supported files found".
C13_NOutcomesOrNoFiles ==
    BatchDone =>
        /\ outcome.raised = NoErr
        /\ IF SupportedVisited = {}
           THEN /\ Len(outcome.results) = 1
                /\ ~outcome.results[1].success
                /\ outcome.results[1].error = NoSupportedFiles
           ELSE /\ Len(outcome.results) = Cardinality(SupportedVisited)
                /\ \A k \in 1..Len(outcome.results) :
                     \E i \in SupportedVisited :
                        outcome.results[k].input_file = outcome.entries[i].path

\* a directory with two supported files and an unsupported one between
\* them, answered by two outcomes
C13_Witness ==
    /\ BatchDone
    /\ Len(outcome.entries) = 3
    /\ outcome.entries[2].suffix = ".Xyz"
    /\ Cardinality(SupportedVisited) = 2
    /\ Len(outcome.results) = 2

\* the supported files of the directory of the last call, in the order the
\* file system enumerated them
SupportedInOrder ==
    SelectSeq(outcome.entries,
              LAMBDA f : /\ outcome.recursive \/ f.depth = 0
                         /\ f.suffix \in {".pdf", ".PNG"})

\* C14: batch_process on a directory with supported files hands each of
\* them to process_document once, in enumeration order: the i-th outcome is
\* the outcome of the i-th file and every file gets to its engine lookup,
\* whatever the outcomes of the files before it.
C14_NoShortCircuit ==
    BatchDone /\ SupportedInOrder # <<>> =>
        /\ Len(outcome.results) = Len(SupportedInOrder)
        /\ Len(outcome.trace.lookups) = Len(SupportedInOrder)
        /\ \A i \in 1..Len(SupportedInOrder) :
             outcome.results[i].input_file = SupportedInOrder[i].path

\* a batch whose first file failed in the adapter and whose second file was
\* processed and saved
C14_Witness ==
    /\ BatchDone
    /\ Len(SupportedInOrder) = 2
    /\ Len(outcome.results) = 2
    /\ ~outcome.results[1].success
    /\ outcome.results[1].error.type = "process"
    /\ outcome.results[2].success
    /\ outcome.results[2].input_file = SupportedInOrder[2].path

\* the step is a process_document or process_bytes call whose adapter raised
\* in process/process_bytes
AdapterRaised ==
    /\ outcome'.op \in {"process_document", "process_bytes"}
    /\ outcome'.trace.faults = <<"process">>

\* C15: when the adapter a call obtained raises in process/process_bytes,
\* whether in its first initialize() or later, the call returns a failure
\* outcome with the adapter's error under the requested name, invokes that
\* adapter and no other, and constructs nothing after it: the only object
\* the call may have added is that adapter itself, made by the last
\* constructor call of _get_engine, and the processor keeps it cached under
\* the requested name.
C15_NoFallbackWhileProcessing ==
    [][AdapterRaised =>
         LET o == outcome'.results[1]
             made == nextId..(nextId' - 1)
             ctors == outcome'.trace.ctors
         IN /\ outcome'.raised = NoErr
            /\ ~o.success
            /\ o.error = ProcessError(objects'[o.inst].cls)
            /\ o.engine = outcome'.trace.lookups[1]
            /\ Len(outcome'.trace.invoked) = 1
            /\ outcome'.trace.invoked[1].inst = o.inst
            /\ made \subseteq {o.inst}
            /\ \A i \in 1..Len(ctors) : ctors[i].ok => i = Len(ctors)
            /\ processor'.engine_cache[o.engine] = o.inst
            /\ \A i \in DOMAIN objects : i # o.inst => objects'[i] = objects[i]]_vars

\* a process_bytes call whose adapter, a substitute made by the fallback
\* loop in this very call, failed in its first initialize()
C15_Witness ==
    /\ outcome.op = "process_bytes"
    /\ outcome.trace.faults = <<"process">>
    /\ ~outcome.results[1].success
    /\ outcome.trace.ctors # <<>>
    /\ outcome.trace.ctors[Len(outcome.trace.ctors)].via = "fallback"
    /\ ~objects[outcome.results[1].inst].model

\* the adapter of the last call is a substitute made by the fallback loop
UsedSubstitute ==
    /\ SingleCall
    /\ outcome.raised = NoErr
    /\ outcome.results[1].inst # NoInst
    /\ objects[outcome.results[1].inst].fb

\* C16: when process_document or process_bytes works with a substitute made
\* by the fallback loop, the dict it returns names the engine that did the
\* work (the dict has no key for a fallback marker; metadata["engine"] is
\* the only place where the substitute's name can appear).
C16_OutcomeTellsSubstitution ==
    UsedSubstitute =>
        outcome.results[1].produced_by =
            EngineName(objects[outcome.results[1].inst].cls)

(***************************************************************************)
(* Properties of the request loop of the remote-API adapter.               *)
(***************************************************************************)
\* the request of an adapter with the default retry_attempts has met three
\* HTTP 500 responses in a row, from its first post() on
ThreeServerErrors ==
    /\ request.retry_attempts = MAX_RETRIES
    /\ Len(request.responses) >= 3
    /\ \A i \in 1..3 : request.responses[i] = Http(500, TRUE, "")

\* C17: with the default retry_attempts, a request that met three HTTP 500
\* responses in a row goes on to a fourth post(), and when that one meets an
\* HTTP 200 the request returns its payload.
C17_FourthAttemptReturns ==
    ThreeServerErrors =>
        IF Len(request.responses) = 3
        THEN request.pc = "running"
        ELSE request.responses[4] = Http(200, TRUE, "") =>
                request.pc = "returned" /\ request.ret = <<request.responses[4]>>

\* the i-th response of the request is an HTTP 4xx other than 429
ClientError(i) ==
    /\ request.responses[i].kind = "http"
    /\ request.responses[i].status \in (400..499) \ {429}

\* C18: an HTTP 4xx response other than 429 is the last response of its
\* request: the request has raised, with the "API error" RuntimeError of
\* that status when the body parsed, after as many post() calls as there
\* were responses up to and including that one (one when it is the first)
\* and without sleeping after it.
C18_ClientErrorNotRetried ==
    \A i \in 1..Len(request.responses) :
        ClientError(i) =>
            /\ i = Len(request.responses)
            /\ request.attempt = i
            /\ request.pc = "raised"
            /\ request.responses[i].json =>
                 request.err = ApiError(request.responses[i].status)
            /\ Len(request.slept) = i - 1

\* a request that met an HTTP 500 and then an HTTP 404 and raised after two
\* post() calls
C18_Witness ==
    /\ request.retry_attempts = MAX_RETRIES
    /\ request.responses = <<Http(500, TRUE, ""), Http(404, TRUE, "")>>
    /\ request.pc = "raised"
    /\ request.err = ApiError(404)
    /\ request.attempt = 2

(***************************************************************************)
(* Properties of auto_select_engine, on the record of the last selection.  *)
(***************************************************************************)
\* the last call was auto_select_engine with priority COST
SelectedForCost == selection.op = "auto_select" /\ selection.priority = "cost"

\* C19: auto_select_engine with priority COST returns the same id whatever
\* the GPU detection answers, for every registry, document type, complexity
\* and has_gpu argument, and that id is tesseract, easyocr or paddleocr,
\* whose cost is "free": never the paid remote API.
C19_CostSelectsFreeEngine ==
    SelectedForCost =>
        /\ selection.rets = {selection.ret}
        /\ selection.ret \in {"tesseract", "easyocr", "paddleocr"}
        /\ selection.ret \notin {"mistral_ocr", "mistral"}
        /\ CostOf(selection.ret) = "free"

\* a COST selection with has_gpu left to detection, on a registry that holds
\* the remote API and no tesseract
C19_Witness ==
    /\ SelectedForCost
    /\ selection.has_gpu = NoneArg
    /\ "mistral_ocr" \in DOMAIN engines
    /\ "tesseract" \notin DOMAIN engines
    /\ selection.ret \in {"easyocr", "paddleocr"}

\* the step is an auto_select_engine call
SelectStep == selection'.op = "auto_select" /\ selection'.seq = calls' /\ calls' # calls

C21_CachedNeverCleanedUp ==
    \A i \in 1..Len(instances) : objects[instances[i].inst].cleanups = 0

\* C22: when several threads call create_engine for the same id and config
\* with cache_instance=True, every thread that returns has the same adapter,
\* which is the one the cache holds under that key: the constructor ran once
\* for the key.
C22_OneInstancePerKey ==
    \A t, u \in 1..MaxThreads :
        /\ threads[t].pc = "returned"
        /\ threads[u].pc = "returned"
        /\ threads[t].engine_name = threads[u].engine_name
        /\ threads[t].cfg = threads[u].cfg
        => /\ threads[t].ret = threads[u].ret
           /\ threads[t].ret =
                CacheGet(instances, CacheKey(threads[t].engine_name, threads[t].cfg))

\* the constructor calls the fallback loop made during the last call
FallbackCtors(call) == SelectSeq(call.ctors, LAMBDA c : c.via = "fallback")

\* C23: the fallback loop calls the constructors of the registered members
\* of FALLBACK_CHAIN in chain order and of no other class, and stops at the
\* first that returns: every call before the last one failed, and when the
\* loop returns an instance it is the one the last call built, it holds the
\* caller's config, and its name is the chain id whose turn it was.
C23_FallbackWalksChain ==
    [][(CreateStep /\ FallbackCtors(last') # <<>>)
       => LET tried == FallbackCtors(last')
              chain == RegisteredChain(engines')
              n     == Len(tried)
          IN /\ n <= Len(chain)
             /\ \A i \in 1..n : tried[i].cls = engines'[chain[i]]
             /\ \A i \in 1..(n - 1) : ~tried[i].ok
             /\ tried[n].ok <=> last'.ret # NoInst
             /\ ~tried[n].ok => n = Len(chain)
             /\ last'.ret # NoInst =>
                  /\ last'.ret \notin DOMAIN objects
                  /\ objects'[last'.ret].cls = tried[n].cls
                  /\ objects'[last'.ret].config = last'.cfg
                  /\ EngineName(objects'[last'.ret].cls) = chain[n]]_vars

\* paddleocr's constructor failed twice (as the requested engine and as the
\* first chain member) and the loop returned the tesseract adapter
C23_Witness ==
    /\ last.op = "create" /\ last.uf
    /\ last.ret # NoInst
    /\ Len(FallbackCtors(last)) = 2
    /\ objects[last.ret].cls = "TesseractEngine"
    /\ objects[last.ret].config = last.cfg

RECURSIVE BackoffAfter(_)
\* backoff after n passes that ended in "continue": INITIAL_BACKOFF
\* doubled n times
BackoffAfter(n) == IF n = 0 THEN INITIAL_BACKOFF ELSE 2 * BackoffAfter(n - 1)

\* the i-th response of the request is an HTTP 429 or 5xx
RetryableResponse(i) ==
    /\ request.responses[i].kind = "http"
    /\ RetriedStatus(request.responses[i].status)

\* the i-th response of the request is an HTTP 5xx whose body parsed
ServerError(i) ==
    /\ request.responses[i].kind = "http"
    /\ request.responses[i].json
    /\ request.responses[i].status >= 500

\* the request made no more than retry_attempts post() calls, one per
\* response; a 429 or 5xx response that was not the last was followed by a
\* sleep; the i-th pass slept INITIAL_BACKOFF * 2^(i-1) seconds when it met
\* a 5xx; a 2xx ended the request with its payload; a request whose passes
\* were all used up by 429 and 5xx responses raised "All attempts failed"
RequestBounded ==
    /\ request.attempt = Len(request.responses)
    /\ request.attempt <= request.retry_attempts
    /\ request.pc = "running" => request.attempt < request.retry_attempts
    /\ \A i \in 1..Len(request.responses) :
         /\ (RetryableResponse(i) /\ i < Len(request.responses))
                => Len(request.slept) >= i
         /\ ServerError(i) => /\ Len(request.slept) >= i
                              /\ request.slept[i] = BackoffAfter(i - 1)
         /\ (/\ request.responses[i].kind = "http"
             /\ request.responses[i].json
             /\ request.responses[i].status \in 200..299)
                => /\ i = Len(request.responses)
                   /\ request.pc = "returned"
                   /\ request.ret = <<request.responses[i]>>
    /\ (/\ request.pc # "idle"
        /\ request.attempt = request.retry_attempts
        /\ Len(request.slept) = request.retry_attempts
        /\ \A i \in 1..Len(request.responses) : RetryableResponse(i))
           => /\ request.pc = "raised"
              /\ request.err.type = "All attempts failed"

AdapterStep ==
    /\ calls' = calls + 1
    /\ last'.op \in {"process", "process_bytes", "cleanup"}

\* an adapter has a model exactly when one initialize() returned on it, and
\* none has seen more than one
InitializedOnce ==
    \A i \in DOMAIN objects :
        /\ objects[i].inits <= 1
        /\ objects[i].model <=> objects[i].inits = 1

\* C25: a constructor leaves its adapter without a model and without an
\* initialize() call; only process and process_bytes call initialize(), and
\* only on an adapter without a model; once an initialize() returned on an
\* adapter, no process, process_bytes or cleanup call on it runs
\* initialize() again or drops the model.
C25_InitializeOnce ==
    /\ []InitializedOnce
    /\ [][/\ CreateStep =>
              \A i \in (DOMAIN objects') \ (DOMAIN objects) :
                  ~objects'[i].model /\ objects'[i].inits = 0
          /\ AdapterStep =>
              \A i \in (DOMAIN objects') \cap (DOMAIN objects) :
                  /\ objects[i].model =>
                        /\ objects'[i].model
                        /\ objects'[i].inits = objects[i].inits
                  /\ objects'[i].inits # objects[i].inits =>
                        /\ i = last'.ret
                        /\ last'.op \in {"process", "process_bytes"}]_vars

\* an adapter was built, initialized by its first process call and cleaned
\* up; the process_bytes call after that found the model loaded
C25_Witness ==
    /\ calls = 4
    /\ last.op = "process_bytes"
    /\ last.err = NoErr
    /\ objects[last.ret].inits = 1
    /\ objects[last.ret].cleanups = 1

\* dict equality: the same keys with the same values, whatever the order in
\* which they were inserted
SameMapping(c1, c2) ==
    {c1[i] : i \in 1..Len(c1)} = {c2[i] : i \in 1..Len(c2)}

\* C26: when a create_engine call with cache_instance=True returned an
\* instance, the next create_engine call with the same id and a config equal
\* to the first as a mapping returns that instance from the cache; and two
\* cache entries of one engine id whose configs differ as mappings never
\* hold the same instance.
C26_KeyFollowsContent ==
    [][(/\ last.op = "create" /\ last.ci /\ last.ret # NoInst
        /\ CreateStep
        /\ last'.ci /\ last'.id = last.id)
       => /\ SameMapping(last'.cfg, last.cfg) =>
                (last'.hit /\ last'.ret = last.ret /\ last'.ctors = <<>>)
          /\ (~SameMapping(last'.cfg, last.cfg) /\ last'.ret # NoInst) =>
                last'.ret # last.ret]_vars

(***************************************************************************)
(* Properties of the registry.                                             *)
(***************************************************************************)
\* the step is a call of register_engine
RegisterStep ==
    /\ calls' = calls + 1
    /\ selection' = selection
    /\ last'.op = "register"

\* the step is a call of a method that begins with
\* _ensure_engines_registered(): create_engine, get_available_engines,
\* compare_engines or auto_select_engine
EnsureStep ==
    /\ calls' = calls + 1
    /\ \/ last'.op \in {"create", "available", "compare"}
       \/ selection' # selection

\* C27: once the registry has an entry, whether the scan or register_engine
\* put it there, only register_engine changes the registry: every later
\* _ensure_engines_registered leaves it as it is, also when a module that
\* failed to import has become importable; while the registry is empty,
\* each call runs the scan with the imports as they are at that time.
C27_RegistrationOneShot ==
    [][/\ (DOMAIN engines # {} /\ ~RegisterStep) => engines' = engines
       /\ (DOMAIN engines = {} /\ EnsureStep) =>
             engines' = ScanFrom(EmptyDict, BuiltinScan, importable)
       /\ (DOMAIN engines = {} /\ ~EnsureStep /\ ~RegisterStep) =>
             engines' = engines]_vars

\* register_engine put the only entry into the registry; the call of
\* get_available_engines after it did not add paddleocr, whose module is
\* importable
C27_Witness ==
    /\ calls >= 2
    /\ last.op = "available"
    /\ DOMAIN engines = {"surya"}
    /\ "engines.paddleocr_engine" \in importable

(***************************************************************************)
(* Properties of the instance cache across calls.                          *)
(***************************************************************************)
\* the step is a call of clear_cache
ClearStep ==
    /\ calls' = calls + 1
    /\ selection' = selection
    /\ last'.op = "clear"

\* every entry of the cache is in the cache after the step, with the
\* instance it had
EntriesKept ==
    \A i \in 1..Len(instances) :
        /\ CacheHas(instances', instances[i].key)
        /\ CacheGet(instances', instances[i].key) = instances[i].inst

\* C28: a step that is not a clear_cache call (create_engine with any flags,
\* register_engine, compare_engines, auto_select_engine) keeps every cache
\* entry with its instance; create_engine with cache_instance=False leaves
\* the cache as it is and is never answered from it: what it returns is an
\* object built in that call.
C28_OnlyClearRemoves ==
    [][/\ ~ClearStep => EntriesKept
       /\ (CreateStep /\ selection' = selection /\ ~last'.ci) =>
             /\ instances' = instances
             /\ ~last'.hit
             /\ last'.ret # NoInst => last'.ret \notin DOMAIN objects]_vars

\* ('paddleocr', {}) was cached by the first call; the call with
\* cache_instance=False after it built a second adapter and the cache still
\* holds the first
C28_Witness ==
    /\ last.op = "create" /\ ~last.ci
    /\ last.ret # NoInst
    /\ CacheHas(instances, CacheKey(last.id, last.cfg))
    /\ CacheGet(instances, CacheKey(last.id, last.cfg)) # last.ret

(***************************************************************************)
(* Properties of the balanced branch of auto_select_engine.                *)
(***************************************************************************)
\* the traditional engines
Traditional == {"paddleocr", "tesseract"}

\* the last call was auto_select_engine with priority BALANCED and
\* complexity LOW
SelectedBalancedLow ==
    /\ selection.op = "auto_select"
    /\ selection.priority = "balanced"
    /\ selection.complexity = "low"

\* C29: auto_select_engine with priority BALANCED and complexity LOW returns
\* paddleocr or tesseract whenever one of them is registered, and surya only
\* when neither is.
C29_TraditionalFirst ==
    SelectedBalancedLow =>
        /\ Traditional \cap DOMAIN engines # {} => selection.ret \in Traditional
        /\ selection.ret = "surya" => Traditional \cap DOMAIN engines = {}

(***************************************************************************)
(* Properties of the engine cache of the document processor.               *)
(***************************************************************************)
\* the step is a process_document or process_bytes call that reached
\* _get_engine
LookupStep ==
    /\ calls' = calls + 1
    /\ outcome'.op \in {"process_document", "process_bytes"}
    /\ outcome'.trace.lookups # <<>>

\* C30: the processor's engine cache never loses or changes an entry; a
\* process_document or process_bytes call for a name that is in it works
\* with the cached adapter and does not call the factory (no constructor
\* call, factory cache and registry as they were), also when clear_cache()
\* emptied the factory cache in between; a call for a name that is not in
\* it caches the adapter create_engine returned, and caches nothing when
\* the creation failed, so that the next call asks the factory again.
C30_ProcessorCacheByName ==
    [][/\ \A n \in DOMAIN processor.engine_cache :
             /\ n \in DOMAIN processor'.engine_cache
             /\ processor'.engine_cache[n] = processor.engine_cache[n]
       /\ LookupStep =>
             LET n == outcome'.trace.lookups[1]
                 used == outcome'.results[1].inst
             IN IF n \in DOMAIN processor.engine_cache
                THEN /\ used = processor.engine_cache[n]
                     /\ outcome'.trace.ctors = <<>>
                     /\ instances' = instances
                     /\ engines' = engines
                     /\ DOMAIN objects' = DOMAIN objects
                ELSE IF used = NoInst
                THEN /\ "create" \in {outcome'.trace.faults[i] :
                                        i \in 1..Len(outcome'.trace.faults)}
                     /\ processor'.engine_cache = processor.engine_cache
                ELSE /\ n \in DOMAIN processor'.engine_cache
                     /\ processor'.engine_cache[n] = used]_vars

\* the second call of a processor worked with the adapter of its first call
\* after clear_cache() had cleaned that adapter up and emptied the factory
\* cache
C30_Witness ==
    /\ calls = 2
    /\ last.op = "clear"
    /\ instances = <<>>
    /\ outcome.op = "process_document"
    /\ outcome.results[1].success
    /\ outcome.trace.ctors = <<>>
    /\ outcome.results[1].inst \in CacheInsts(last.cleared)
    /\ processor.engine_cache["paddleocr"] = outcome.results[1].inst
    /\ objects[outcome.results[1].inst].cleanups = 3

====
